---- MODULE Spec2Model ----
(***************************************************************************)
(* x-cli: the scheduling and delivery engine.                              *)
(*                                                                         *)
(* State: the three files of the configuration directory (schedule.json,   *)
(* journal.jsonl, runner.lock), the wall clock, the remote platform's      *)
(* record of accepted posts, the run_once processes (control position and  *)
(* locals), the interactive clients that run add_job / update_job /        *)
(* remove_job without the lock, the invocations of post_tweet made so far  *)
(* (attempted) and one call of post_tweet with its HTTP requests (call).   *)
(*                                                                         *)
(* Fault model: a run_once process may be killed between any two of its    *)
(* steps; post_tweet may return, raise ApiError or raise another           *)
(* exception; append_journal and save_schedule may raise inside run_once.  *)
(* The lifecycle client may be killed or fail inside save_schedule.        *)
(* schedule.json may be cut short from outside between two operations. A   *)
(* request of post_tweet may be answered with any status and body, or      *)
(* fail in the transport. Time is counted in seconds.                      *)
(*                                                                         *)
(* Specifications: Spec (the delivery engine with job creation, all        *)
(* interleavings), LifecycleSpec (the lifecycle API alone, save_schedule    *)
(* step by step), EditSpec (sequences of whole lifecycle calls and runs),  *)
(* JournalSpec (sequences of the operations that write the journal).       *)
(* LockSpec (the lock API alone, whole calls by any caller), StatusSpec     *)
(* (run_once with runner.lock written step by step, and runner_status),    *)
(* WindowSpec (the resolver of prime-time windows), RaceSpec (lifecycle     *)
(* calls of two clients at any moment of a run), AttemptSpec (sequences of *)
(* runs, edits and failed saves), DamageSpec (sequences of runs and        *)
(* lifecycle calls over a store that may be damaged), RetrySpec (one call  *)
(* of post_tweet), ClockSpec (resolve_time_spec on clock times).           *)
(***************************************************************************)
EXTENDS Integers, Sequences, FiniteSets, TLC

\* ---- bounds ----------------------------------------------------------------
MaxJobs == 2        \* jobs ever created by add_job
MaxRuns == 2        \* run_once invocations ever started
MaxEdits == 1       \* update_job and remove_job calls ever made
MaxPosts == 1       \* immediate posts ever journaled

Procs == {1, 2}     \* run_once processes; a process's pid is its number
Texts == {"a", "b"}
\* Nothing inspects a text beyond equality, so the first job's text is fixed.
TextsFor(n) == IF n = 0 THEN {"a"} ELSE Texts

\* ---- program constants -----------------------------------------------------
LeadSeconds == 300  \* timedelta(minutes=5)

NoPid == 0          \* Python None where a pid is expected
NoTweet == 0        \* Python None where a tweet id is expected
NoError == "None"   \* Python None where an error string is expected
NoText == "None"    \* update_job(text=None)
NoAt == -1          \* update_job(at=None)

VARIABLES
    store,      \* schedule.json: the sequence schedule["jobs"]
    journal,    \* journal.jsonl: the sequence of entries
    lock,       \* runner.lock
    now,        \* now_utc(), in seconds
    published,  \* the platform: one record per successful post_tweet
    created,    \* number of ids handed out by gen_id
    runs,       \* number of run_once invocations started
    edits,      \* number of update_job and remove_job calls made
    lc,         \* the lifecycle client: request, loaded snapshot, result
    pc,         \* per run_once process: control position
    sched,      \* per process: the in-memory schedule["jobs"]
    due,        \* per process: indices (into sched) of the due jobs, in stored order
    k,          \* per process: position in due
    posted,     \* per process: the posted list
    failed,     \* per process: the failed list
    tweet,      \* per process: tweet_id returned by post_tweet
    raised,     \* per process: the exception in flight
    jmark,      \* per process: length of the journal when the schedule was loaded
    res,        \* per process: what the last invocation returned
    info,       \* per process: the lock record in memory while runner.lock is written
    status,     \* what runner_status last returned
    resolved,   \* the time resolver: the request and the instant it resolved to
    peer,       \* a second lifecycle client
    attempted,  \* the ids of the jobs run_once has called post_tweet for, in order
    call        \* a call of post_tweet: its loop variables, the responses, the outcome

vars == <<store, journal, lock, now, published, created, runs, edits, lc,
          pc, sched, due, k, posted, failed, tweet, raised, jmark, res,
          info, status, resolved, peer, attempted, call>>


\* ---- the clock -------------------------------------------------------------
\* The instants at which the system is observed: the start, and the first
\* second at which a job created at the start can be due.
Instants == {0, LeadSeconds + 1}

Tick ==
    /\ \E t \in Instants : t > now /\ now' = t
    /\ UNCHANGED <<store, journal, lock, published, created, runs, edits, lc,
                   pc, sched, due, k, posted, failed, tweet, raised, jmark, res,
                   info, status, resolved, peer, attempted, call>>

\* ---- util.py: identifiers and keys -----------------------------------------
\* sha256(text | time_utc): a key is determined by the pair, and distinct
\* pairs give distinct keys.
compute_idempotency_key(text, time_utc_iso) == <<text, time_utc_iso>>

\* uuid4().hex[:12]: a fresh token per call
gen_id(n) == n + 1

\* ---- util.py: the job store ------------------------------------------------
\* A document is the sequence schedule["jobs"]. A file that holds only the
\* beginning of a dump is the jobs written so far followed by a cut mark.
Cut == [cut |-> TRUE]

Torn(doc, n) == Append(SubSeq(doc, 1, n), Cut)

\* json.load succeeds on the file's content
Parses(file) == \A i \in 1..Len(file) : "cut" \notin DOMAIN file[i]

\* read_json: the document, or the default {"jobs": []} on JSONDecodeError
read_json(file) == IF Parses(file) THEN file ELSE <<>>

load_schedule(file) == read_json(file)

save_schedule(schedule) == schedule

\* schedule.json as read_json may find it: damaged outside the program (cut
\* short by a copy or an edit), it holds the beginning of the document
schedule_damaged ==
    /\ Parses(store)
    /\ store # <<>>
    /\ \E n \in 0..(Len(store) - 1) : store' = Torn(store, n)
    /\ UNCHANGED <<journal, lock, now, published, created, runs, edits, lc,
                   pc, sched, due, k, posted, failed, tweet, raised, jmark, res,
                   info, status, resolved, peer, attempted, call>>

\* ---- util.py: the journal --------------------------------------------------
\* the journal opened with "w" in place of "a"
append_journal_Rewrite(file, entry) == <<entry>>

append_journal(file, entry) == Append(file, entry)

NoRec == [type |-> "none"]

RECURSIVE journal_scan(_, _, _)
journal_scan(file, key, i) ==
    IF i > Len(file) THEN NoRec
    ELSE IF file[i].type = "delivery" /\ file[i].idempotency_key = key THEN file[i]
    ELSE journal_scan(file, key, i + 1)

\* the first entry whose idempotency_key equals key, or None
journal_lookup_idempotency(file, key) == journal_scan(file, key, 1)

\* ---- util.py: the process lock ---------------------------------------------
NoLock == [exists |-> FALSE, pid |-> NoPid, started_at |-> 0, last_heartbeat |-> 0]

\* acquire_lock opening the file without O_EXCL: an existing record is overwritten
acquire_lock_NoExcl(file, pid, t) ==
    [pid |-> pid,
     file |-> [exists |-> TRUE, pid |-> pid, started_at |-> t, last_heartbeat |-> t]]

\* acquire_lock reaping a record whose process is dead
acquire_lock_Reap(file, pid, t) ==
    IF file.exists /\ pc[file.pid] # "killed"
    THEN [pid |-> NoPid, file |-> file]
    ELSE [pid |-> pid,
          file |-> [exists |-> TRUE, pid |-> pid, started_at |-> t, last_heartbeat |-> t]]

\* pid is NoPid when the file already exists (EEXIST); the file is then only read
acquire_lock(file, pid, t) ==
    IF file.exists
    THEN [pid |-> NoPid, file |-> file]
    ELSE [pid |-> pid,
          file |-> [exists |-> TRUE, pid |-> pid, started_at |-> t, last_heartbeat |-> t]]

\* release_lock that leaves the file in place
release_lock_NoUnlink(file) == file

release_lock(file) == NoLock

\* update_lock_heartbeat without the comparison of line 457
update_lock_heartbeat_AnyOwner(file, expected_pid, t) ==
    IF ~file.exists THEN file
    ELSE [file EXCEPT !.last_heartbeat = t]

update_lock_heartbeat(file, expected_pid, t) ==
    IF ~file.exists THEN file
    ELSE IF expected_pid # NoPid /\ file.pid # expected_pid THEN file
    ELSE [file EXCEPT !.last_heartbeat = t]

\* ---- schedule.py: the lifecycle API ----------------------------------------
\* the lead-time test without the five minutes
TooSoon_NoLead(dt_utc, t) == dt_utc <= t

TooSoon(dt_utc, t) == dt_utc <= t + LeadSeconds

\* a job record whose id is not the generated one
NewJob_FixedId(id, text, time_utc) ==
    [id |-> 1, text |-> text, time_utc |-> time_utc, status |-> "pending",
     attempt_count |-> 0, last_error |-> NoError, posted_tweet_id |-> NoTweet,
     idempotency_key |-> compute_idempotency_key(text, time_utc)]

NewJob(id, text, time_utc) ==
    [id |-> id, text |-> text, time_utc |-> time_utc, status |-> "pending",
     attempt_count |-> 0, last_error |-> NoError, posted_tweet_id |-> NoTweet,
     idempotency_key |-> compute_idempotency_key(text, time_utc)]

\* the client between calls; inside a call (state "save") it holds the
\* snapshot that the call's save_schedule will write, and inside
\* write_json_atomic the content of its temp file
Idle == [state |-> "idle", op |-> "none", snap |-> <<>>, tmp |-> <<>>]

\* The resolved instants a caller asks for: one second before, at and one
\* second after the lead time of the start.
Ats == {LeadSeconds - 1, LeadSeconds, LeadSeconds + 1}

\* add_job that forgets the jobs it loaded
add_job_Overwrite(text, at) ==
    /\ lc.state = "idle"
    /\ created < MaxJobs
    /\ IF TooSoon(at, now)
       THEN /\ lc' = Idle
            /\ UNCHANGED created
       ELSE /\ lc' = [Idle EXCEPT !.state = "save", !.op = "add",
                                  !.snap = <<NewJob(gen_id(created), text, at)>>]
            /\ created' = gen_id(created)
    /\ UNCHANGED <<store, journal, lock, now, published, runs, edits,
                   pc, sched, due, k, posted, failed, tweet, raised, jmark, res,
                   info, status, resolved, peer, attempted, call>>

\* add_job up to its save_schedule: rejected with ValueError, or the snapshot
\* with the new job appended is ready to be written
add_job(text, at) ==
    /\ lc.state = "idle"
    /\ created < MaxJobs
    /\ LET schedule == load_schedule(store)
       IN IF TooSoon(at, now)
          THEN /\ lc' = Idle
               /\ UNCHANGED created
          ELSE /\ lc' = [Idle EXCEPT !.state = "save", !.op = "add",
                                     !.snap = Append(schedule, NewJob(gen_id(created), text, at))]
               /\ created' = gen_id(created)
    /\ UNCHANGED <<store, journal, lock, now, published, runs, edits,
                   pc, sched, due, k, posted, failed, tweet, raised, jmark, res,
                   info, status, resolved, peer, attempted, call>>

\* the search that stops one job early
RECURSIVE FirstWithId_OffByOne(_, _, _)
FirstWithId_OffByOne(jobs, id, i) ==
    IF i >= Len(jobs) THEN 0
    ELSE IF jobs[i].id = id THEN i
    ELSE FirstWithId_OffByOne(jobs, id, i + 1)

RECURSIVE FirstWithId(_, _, _)
FirstWithId(jobs, id, i) ==
    IF i > Len(jobs) THEN 0
    ELSE IF jobs[i].id = id THEN i
    ELSE FirstWithId(jobs, id, i + 1)

\* update_job that keeps the key the job had
UpdatedJob_StaleKey(j, text, at) ==
    LET j1 == IF text # NoText THEN [j EXCEPT !.text = text] ELSE j
    IN IF at # NoAt THEN [j1 EXCEPT !.time_utc = at] ELSE j1

\* the job of update_job after its assignments (text / at = None: not provided)
UpdatedJob(j, text, at) ==
    LET j1 == IF text # NoText THEN [j EXCEPT !.text = text] ELSE j
        j2 == IF at # NoAt THEN [j1 EXCEPT !.time_utc = at] ELSE j1
    IN [j2 EXCEPT !.idempotency_key = compute_idempotency_key(j2.text, j2.time_utc)]

\* update_job up to its save_schedule: KeyError when no job has the id
update_job(id, text, at) ==
    /\ lc.state = "idle"
    /\ edits < MaxEdits
    /\ edits' = edits + 1
    /\ LET schedule == load_schedule(store)
           i == FirstWithId(schedule, id, 1)
       IN IF i = 0
          THEN lc' = Idle
          ELSE lc' = [Idle EXCEPT !.state = "save", !.op = "update",
                                  !.snap = [schedule EXCEPT ![i] = UpdatedJob(schedule[i], text, at)]]
    /\ UNCHANGED <<store, journal, lock, now, published, created, runs,
                   pc, sched, due, k, posted, failed, tweet, raised, jmark, res,
                   info, status, resolved, peer, attempted, call>>

\* the filter that stops at the job it drops
RECURSIVE WithoutId_Truncate(_, _)
WithoutId_Truncate(jobs, id) ==
    IF jobs = <<>> THEN <<>>
    ELSE IF Head(jobs).id = id THEN <<>>
    ELSE <<Head(jobs)>> \o WithoutId_Truncate(Tail(jobs), id)

RECURSIVE WithoutId(_, _)
WithoutId(jobs, id) ==
    IF jobs = <<>> THEN <<>>
    ELSE IF Head(jobs).id = id THEN WithoutId(Tail(jobs), id)
    ELSE <<Head(jobs)>> \o WithoutId(Tail(jobs), id)

\* remove_job up to its save_schedule, which it reaches whether or not a job went
remove_job(id) ==
    /\ lc.state = "idle"
    /\ edits < MaxEdits
    /\ edits' = edits + 1
    /\ LET schedule == load_schedule(store)
       IN lc' = [Idle EXCEPT !.state = "save", !.op = "remove",
                               !.snap = WithoutId(schedule, id)]
    /\ UNCHANGED <<store, journal, lock, now, published, created, runs,
                   pc, sched, due, k, posted, failed, tweet, raised, jmark, res,
                   info, status, resolved, peer, attempted, call>>

\* the save_schedule that ends add_job, update_job and remove_job
lifecycle_save ==
    /\ lc.state = "save"
    /\ store' = save_schedule(lc.snap)
    /\ lc' = Idle
    /\ UNCHANGED <<journal, lock, now, published, created, runs, edits,
                   pc, sched, due, k, posted, failed, tweet, raised, jmark, res,
                   info, status, resolved, peer, attempted, call>>

\* remove_job's return value: after < before
remove_job_returns(schedule, id) == Len(WithoutId(schedule, id)) < Len(schedule)

\* ---- util.py: write_json_atomic, step by step ------------------------------
\* the dump written straight into schedule.json
write_json_atomic_dump_InPlace ==
    /\ lc.state = "save"
    /\ \E n \in 0..Len(lc.snap) :
          /\ lc' = [lc EXCEPT !.state = "dump", !.tmp = Torn(lc.snap, n)]
          /\ store' = Torn(lc.snap, n)
    /\ UNCHANGED <<journal, lock, now, published, created, runs, edits,
                   pc, sched, due, k, posted, failed, tweet, raised, jmark, res,
                   info, status, resolved, peer, attempted, call>>

\* lines 55-58: mkstemp, and json.dump under way: the temp file holds the
\* beginning of the document; schedule.json is not touched
write_json_atomic_dump ==
    /\ lc.state = "save"
    /\ \E n \in 0..Len(lc.snap) :
          lc' = [lc EXCEPT !.state = "dump", !.tmp = Torn(lc.snap, n)]
    /\ UNCHANGED store
    /\ UNCHANGED <<journal, lock, now, published, created, runs, edits,
                   pc, sched, due, k, posted, failed, tweet, raised, jmark, res,
                   info, status, resolved, peer, attempted, call>>

\* lines 58-60: the dump is complete, flushed and synced
write_json_atomic_flush ==
    /\ lc.state = "dump"
    /\ lc' = [lc EXCEPT !.state = "written", !.tmp = lc.snap]
    /\ UNCHANGED store
    /\ UNCHANGED <<journal, lock, now, published, created, runs, edits,
                   pc, sched, due, k, posted, failed, tweet, raised, jmark, res,
                   info, status, resolved, peer, attempted, call>>

\* line 61: os.replace(tmp_path, path), the one step that changes schedule.json
write_json_atomic_replace ==
    /\ lc.state = "written"
    /\ store' = lc.tmp
    /\ lc' = Idle
    /\ UNCHANGED <<journal, lock, now, published, created, runs, edits,
                   pc, sched, due, k, posted, failed, tweet, raised, jmark, res,
                   info, status, resolved, peer, attempted, call>>

\* lines 57-67: the dump raises (OSError); the finally removes the temp file
write_json_atomic_raises ==
    /\ lc.state = "dump"
    /\ lc' = [Idle EXCEPT !.op = "raised"]
    /\ UNCHANGED store
    /\ UNCHANGED <<journal, lock, now, published, created, runs, edits,
                   pc, sched, due, k, posted, failed, tweet, raised, jmark, res,
                   info, status, resolved, peer, attempted, call>>

\* the client process is killed inside save_schedule: no finally runs, the
\* temp file stays where it is
write_json_atomic_killed ==
    /\ lc.state \in {"save", "dump", "written"}
    /\ lc' = [Idle EXCEPT !.op = "killed", !.tmp = lc.tmp]
    /\ UNCHANGED store
    /\ UNCHANGED <<journal, lock, now, published, created, runs, edits,
                   pc, sched, due, k, posted, failed, tweet, raised, jmark, res,
                   info, status, resolved, peer, attempted, call>>

\* ---- schedule.py: list_jobs ------------------------------------------------
NoSince == -1       \* list_jobs(since=None)

\* insertion that keeps equal keys in their order of arrival
RECURSIVE InsertByTime(_, _)
InsertByTime(jobs, j) ==
    IF jobs = <<>> THEN <<j>>
    ELSE IF j.time_utc < Head(jobs).time_utc THEN <<j>> \o jobs
    ELSE <<Head(jobs)>> \o InsertByTime(Tail(jobs), j)

\* the jobs as they come
sorted_Unsorted(jobs) == jobs

RECURSIVE SortFrom(_, _, _)
SortFrom(jobs, i, acc) ==
    IF i > Len(jobs) THEN acc
    ELSE SortFrom(jobs, i + 1, InsertByTime(acc, jobs[i]))

\* sorted(jobs, key=time_utc): ascending and stable
sorted(jobs) == SortFrom(jobs, 1, <<>>)

\* line 49: the jobs at or after the cutoff, in stored order
Since(jobs, cutoff) == SelectSeq(jobs, LAMBDA j : j.time_utc >= cutoff)

\* what list_jobs returns on the schedule file
list_jobs_returns(file, since) ==
    LET jobs == load_schedule(file)
    IN sorted(IF since # NoSince THEN Since(jobs, since) ELSE jobs)

\* the cutoffs a caller asks for
Sinces == {NoSince} \cup Ats

\* list_jobs: the client holds the returned list
list_jobs(since) ==
    /\ lc.state = "idle"
    /\ lc' = [Idle EXCEPT !.op = "list", !.snap = list_jobs_returns(store, since)]
    /\ UNCHANGED store
    /\ UNCHANGED <<journal, lock, now, published, created, runs, edits,
                   pc, sched, due, k, posted, failed, tweet, raised, jmark, res,
                   info, status, resolved, peer, attempted, call>>

\* ---- api.py: the posting collaborator --------------------------------------
\* the id the platform gives the next accepted post
NextTweetId == Len(published) + 1

\* ---- cli.py: the immediate post --------------------------------------------
NoJob == 0          \* a post that belongs to no job
NoKey == <<>>       \* "idempotency_key": None

ImmediateEntry(text, tweet_id) ==
    [type |-> "immediate", id |-> gen_id(MaxJobs + Len(journal)), idempotency_key |-> NoKey,
     tweet_id |-> tweet_id, source |-> "immediate", text |-> text]

Immediates == {i \in 1..Len(journal) : journal[i].type = "immediate"}

\* cmd_post when post_tweet returns: the post is published and journaled
cmd_post(text) ==
    /\ Cardinality(Immediates) < MaxPosts
    /\ published' = Append(published, [job |-> NoJob, text |-> text, tweet_id |-> NextTweetId])
    /\ journal' = append_journal(journal, ImmediateEntry(text, NextTweetId))
    /\ UNCHANGED <<store, lock, now, created, runs, edits, lc,
                   pc, sched, due, k, posted, failed, tweet, raised, jmark, res,
                   info, status, resolved, peer, attempted, call>>

\* ---- api.py: post_tweet -----------------------------------------------------
\* the largest max_attempts a caller passes
MaxAttempts == 3

NoCall == [state |-> "idle", max_attempts |-> 0, attempt |-> 0, sent |-> 0,
           responses |-> <<>>, backoff |-> 0, error |-> "none", status |-> 0]

\* the status codes the endpoint answers with
Statuses == {200, 204, 400, 429, 500, 502, 503, 504}

\* the body of a response: JSON with data.id, JSON without it, or no JSON
Bodies == {"id", "no_id", "not_json"}

\* line 131: the statuses that are retried
Retryable(status_code) == status_code \in {429, 500, 502, 503, 504}

\* lines 116-119, 137-138: the loop is entered with attempt = 1; with
\* max_attempts < 1 its body never runs and the assert of line 137 fails
post_tweet_call(max_attempts) ==
    /\ call.state = "idle"
    /\ call' = IF max_attempts >= 1
               THEN [NoCall EXCEPT !.state = "request", !.max_attempts = max_attempts,
                                   !.attempt = 1, !.backoff = 1]
               ELSE [NoCall EXCEPT !.state = "raised", !.max_attempts = max_attempts,
                                   !.error = "AssertionError"]
    /\ UNCHANGED <<store, journal, lock, now, published, created, runs, edits, lc,
                   pc, sched, due, k, posted, failed, tweet, raised, jmark, res,
                   info, status, resolved, peer, attempted>>

\* lines 120-135: one request and the response to it
post_tweet_response(status_code, body) ==
    /\ call.state = "request"
    /\ LET got == [call EXCEPT !.sent = @ + 1,
                               !.responses = Append(@, [status |-> status_code, body |-> body])]
       IN call' =
            IF status_code \div 100 = 2
            THEN IF body = "not_json"
                 THEN [got EXCEPT !.state = "raised", !.error = "JSONDecodeError"]
                 ELSE IF body = "no_id"
                 THEN [got EXCEPT !.state = "raised", !.error = "ApiError", !.status = status_code]
                 ELSE [got EXCEPT !.state = "returned"]
            ELSE IF Retryable(status_code) /\ call.attempt < call.max_attempts
                 THEN [got EXCEPT !.attempt = @ + 1, !.backoff = @ * 2]
                 ELSE [got EXCEPT !.state = "raised", !.error = "ApiError", !.status = status_code]
    /\ UNCHANGED <<store, journal, lock, now, published, created, runs, edits, lc,
                   pc, sched, due, k, posted, failed, tweet, raised, jmark, res,
                   info, status, resolved, peer, attempted>>

\* line 120: requests.post raises (no connection, the timeout of 30 s)
post_tweet_request_raises ==
    /\ call.state = "request"
    /\ call' = [call EXCEPT !.sent = @ + 1, !.state = "raised",
                            !.error = "RequestException"]
    /\ UNCHANGED <<store, journal, lock, now, published, created, runs, edits, lc,
                   pc, sched, due, k, posted, failed, tweet, raised, jmark, res,
                   info, status, resolved, peer, attempted>>

\* ---- runner.py: run_once ---------------------------------------------------
\* what an invocation hands back: nothing yet, a returned dict (ok, reason), or
\* an exception (reason); the lists of a returned dict are Result(p) at release
NoRes == [state |-> "none", ok |-> FALSE, reason |-> ""]

InRun == {"acquire", "load", "due", "loop", "post", "journal", "mark", "heartbeat",
          "save", "summary", "final_heartbeat", "release"}

RECURSIVE DueFrom(_, _, _)
DueFrom(jobs, t, i) ==
    IF i > Len(jobs) THEN <<>>
    ELSE IF jobs[i].status = "pending" /\ jobs[i].time_utc <= t
         THEN <<i>> \o DueFrom(jobs, t, i + 1)
         ELSE DueFrom(jobs, t, i + 1)

\* the due list cut after its first job
Due_FirstOnly(jobs, t) ==
    IF DueFrom(jobs, t, 1) = <<>> THEN <<>> ELSE <<DueFrom(jobs, t, 1)[1]>>

\* the due list without the test of the status
Due_AnyStatus(jobs, t) ==
    LET OnTime == {i \in 1..Len(jobs) : jobs[i].time_utc <= t}
    IN IF OnTime = {} THEN <<>>
       ELSE [n \in 1..Cardinality(OnTime) |->
                CHOOSE i \in OnTime : Cardinality({j \in OnTime : j < i}) = n - 1]

\* line 41: the due jobs, as indices into schedule["jobs"], in stored order
Due(jobs, t) == DueFrom(jobs, t, 1)

\* the job the loop is at
Cur(p) == sched[p][due[p][k[p]]]

SetCur(p, j) == [sched EXCEPT ![p][due[p][k[p]]] = j]

\* the locals of an invocation go with its frame
Forget(p) ==
    /\ sched' = [sched EXCEPT ![p] = <<>>]
    /\ due' = [due EXCEPT ![p] = <<>>]
    /\ k' = [k EXCEPT ![p] = 0]
    /\ posted' = [posted EXCEPT ![p] = <<>>]
    /\ failed' = [failed EXCEPT ![p] = <<>>]
    /\ tweet' = [tweet EXCEPT ![p] = NoTweet]
    /\ raised' = [raised EXCEPT ![p] = "none"]
    /\ jmark' = [jmark EXCEPT ![p] = 0]
    /\ info' = [info EXCEPT ![p] = NoLock]

\* lines 31-35: acquire_lock succeeded
run_once_acquire(p) ==
    /\ pc[p] \in {"idle", "done"}
    /\ runs < MaxRuns
    /\ LET r == acquire_lock(lock, p, now)
       IN /\ r.pid # NoPid
          /\ lock' = r.file
    /\ pc' = [pc EXCEPT ![p] = "load"]
    /\ runs' = runs + 1
    /\ res' = [res EXCEPT ![p] = NoRes]
    /\ UNCHANGED <<store, journal, now, published, created, edits, lc,
                   sched, due, k, posted, failed, tweet, raised, jmark,
                   info, status, resolved, peer, attempted, call>>

\* run_once with acquire_lock inside the try: the finally releases the lock of
\* the run that holds it
run_once_runner_active_Release(p) ==
    /\ pc[p] \in {"idle", "done"}
    /\ runs < MaxRuns
    /\ acquire_lock(lock, p, now).pid = NoPid
    /\ lock' = release_lock(lock)
    /\ pc' = [pc EXCEPT ![p] = "done"]
    /\ runs' = runs + 1
    /\ res' = [res EXCEPT ![p] = [NoRes EXCEPT !.state = "returned", !.reason = "runner_active"]]
    /\ UNCHANGED <<store, journal, now, published, created, edits, lc,
                   sched, due, k, posted, failed, tweet, raised, jmark,
                   info, status, resolved, peer, attempted, call>>

\* lines 31-34: acquire_lock found the lock record; return runner_active
run_once_runner_active(p) ==
    /\ pc[p] \in {"idle", "done"}
    /\ runs < MaxRuns
    /\ LET r == acquire_lock(lock, p, now)
       IN /\ r.pid = NoPid
          /\ lock' = r.file
    /\ pc' = [pc EXCEPT ![p] = "done"]
    /\ runs' = runs + 1
    /\ res' = [res EXCEPT ![p] = [NoRes EXCEPT !.state = "returned", !.reason = "runner_active"]]
    /\ UNCHANGED <<store, journal, now, published, created, edits, lc,
                   sched, due, k, posted, failed, tweet, raised, jmark,
                   info, status, resolved, peer, attempted, call>>

\* line 37: load_schedule
run_once_load(p) ==
    /\ pc[p] = "load"
    /\ sched' = [sched EXCEPT ![p] = load_schedule(store)]
    /\ jmark' = [jmark EXCEPT ![p] = Len(journal)]
    /\ pc' = [pc EXCEPT ![p] = "due"]
    /\ UNCHANGED <<store, journal, lock, now, published, created, runs, edits, lc,
                   due, k, posted, failed, tweet, raised, res,
                   info, status, resolved, peer, attempted, call>>

\* lines 39-44: the initial heartbeat and the due list
run_once_due(p) ==
    /\ pc[p] = "due"
    /\ lock' = update_lock_heartbeat(lock, p, now)
    /\ due' = [due EXCEPT ![p] = Due(sched[p], now)]
    /\ k' = [k EXCEPT ![p] = 1]
    /\ pc' = [pc EXCEPT ![p] = "loop"]
    /\ UNCHANGED <<store, journal, now, published, created, runs, edits, lc,
                   sched, posted, failed, tweet, raised, jmark, res,
                   info, status, resolved, peer, attempted, call>>

\* lines 48-51: does the journal hold a delivered entry for the job's key
Delivered(file, j) ==
    LET rec == journal_lookup_idempotency(file, j.idempotency_key)
    IN rec.type # "none" /\ rec.tweet_id # NoTweet

\* the short-circuit without posted.append
run_once_short_circuit_Unlisted(p) ==
    /\ pc[p] = "loop"
    /\ k[p] <= Len(due[p])
    /\ Delivered(journal, Cur(p))
    /\ LET rec == journal_lookup_idempotency(journal, Cur(p).idempotency_key)
       IN sched' = SetCur(p, [Cur(p) EXCEPT !.status = "posted",
                                            !.posted_tweet_id = rec.tweet_id])
    /\ k' = [k EXCEPT ![p] = @ + 1]
    /\ UNCHANGED <<store, journal, lock, now, published, created, runs, edits, lc,
                   pc, due, posted, failed, tweet, raised, jmark, res,
                   info, status, resolved, peer, attempted, call>>

\* the short-circuit counted as a delivery attempt
run_once_short_circuit_Counted(p) ==
    /\ pc[p] = "loop"
    /\ k[p] <= Len(due[p])
    /\ Delivered(journal, Cur(p))
    /\ LET rec == journal_lookup_idempotency(journal, Cur(p).idempotency_key)
       IN sched' = SetCur(p, [Cur(p) EXCEPT !.status = "posted",
                                            !.posted_tweet_id = rec.tweet_id,
                                            !.attempt_count = @ + 1])
    /\ posted' = [posted EXCEPT ![p] = Append(@, Cur(p).id)]
    /\ k' = [k EXCEPT ![p] = @ + 1]
    /\ UNCHANGED <<store, journal, lock, now, published, created, runs, edits, lc,
                   pc, due, failed, tweet, raised, jmark, res,
                   info, status, resolved, peer, attempted, call>>

\* lines 48-56: the idempotent short-circuit; continue skips the heartbeat
run_once_short_circuit(p) ==
    /\ pc[p] = "loop"
    /\ k[p] <= Len(due[p])
    /\ Delivered(journal, Cur(p))
    /\ LET rec == journal_lookup_idempotency(journal, Cur(p).idempotency_key)
       IN sched' = SetCur(p, [Cur(p) EXCEPT !.status = "posted",
                                            !.posted_tweet_id = rec.tweet_id])
    /\ posted' = [posted EXCEPT ![p] = Append(@, Cur(p).id)]
    /\ k' = [k EXCEPT ![p] = @ + 1]
    /\ UNCHANGED <<store, journal, lock, now, published, created, runs, edits, lc,
                   pc, due, failed, tweet, raised, jmark, res,
                   info, status, resolved, peer, attempted, call>>

\* the attempt without the idempotency check of lines 48-56
run_once_attempt_NoCheck(p) ==
    /\ pc[p] = "loop"
    /\ k[p] <= Len(due[p])
    /\ sched' = SetCur(p, [Cur(p) EXCEPT !.status = "in_progress",
                                         !.attempt_count = @ + 1])
    /\ pc' = [pc EXCEPT ![p] = "post"]
    /\ UNCHANGED <<store, journal, lock, now, published, created, runs, edits, lc,
                   due, k, posted, failed, tweet, raised, jmark, res,
                   info, status, resolved, peer, attempted, call>>

\* the attempt with a save_schedule of its own
run_once_attempt_Persist(p) ==
    /\ pc[p] = "loop"
    /\ k[p] <= Len(due[p])
    /\ ~Delivered(journal, Cur(p))
    /\ sched' = SetCur(p, [Cur(p) EXCEPT !.status = "in_progress",
                                         !.attempt_count = @ + 1])
    /\ store' = save_schedule(sched'[p])
    /\ pc' = [pc EXCEPT ![p] = "post"]
    /\ UNCHANGED <<journal, lock, now, published, created, runs, edits, lc,
                   due, k, posted, failed, tweet, raised, jmark, res,
                   info, status, resolved, peer, attempted, call>>

\* lines 57-59: no delivered entry; the job goes in_progress
run_once_attempt(p) ==
    /\ pc[p] = "loop"
    /\ k[p] <= Len(due[p])
    /\ ~Delivered(journal, Cur(p))
    /\ sched' = SetCur(p, [Cur(p) EXCEPT !.status = "in_progress",
                                         !.attempt_count = @ + 1])
    /\ pc' = [pc EXCEPT ![p] = "post"]
    /\ UNCHANGED <<store, journal, lock, now, published, created, runs, edits, lc,
                   due, k, posted, failed, tweet, raised, jmark, res,
                   info, status, resolved, peer, attempted, call>>

\* line 61: post_tweet returns (tweet_id, raw)
run_once_post_ok(p) ==
    /\ pc[p] = "post"
    /\ attempted' = Append(attempted, Cur(p).id)
    /\ published' = Append(published, [job |-> Cur(p).id, text |-> Cur(p).text,
                                       tweet_id |-> NextTweetId])
    /\ tweet' = [tweet EXCEPT ![p] = NextTweetId]
    /\ pc' = [pc EXCEPT ![p] = "journal"]
    /\ UNCHANGED <<store, journal, lock, now, created, runs, edits, lc,
                   sched, due, k, posted, failed, raised, jmark, res,
                   info, status, resolved, peer, call>>

\* lines 61, 77-81: post_tweet raises ApiError
run_once_post_api_error(p) ==
    /\ pc[p] = "post"
    /\ attempted' = Append(attempted, Cur(p).id)
    /\ sched' = SetCur(p, [Cur(p) EXCEPT !.status = "failed", !.last_error = "ApiError"])
    /\ failed' = [failed EXCEPT ![p] = Append(@, Cur(p).id)]
    /\ pc' = [pc EXCEPT ![p] = "heartbeat"]
    /\ UNCHANGED <<store, journal, lock, now, published, created, runs, edits, lc,
                   due, k, posted, tweet, raised, jmark, res,
                   info, status, resolved, peer, call>>

\* line 61: post_tweet raises something that is no ApiError (RuntimeError for
\* missing credentials, a requests exception): no except clause takes it
run_once_post_raises(p) ==
    /\ pc[p] = "post"
    /\ attempted' = Append(attempted, Cur(p).id)
    /\ raised' = [raised EXCEPT ![p] = "RuntimeError"]
    /\ pc' = [pc EXCEPT ![p] = "heartbeat"]
    /\ UNCHANGED <<store, journal, lock, now, published, created, runs, edits, lc,
                   sched, due, k, posted, failed, tweet, jmark, res,
                   info, status, resolved, peer, call>>

DeliveryEntry(j, tweet_id) ==
    [type |-> "delivery", id |-> j.id, idempotency_key |-> j.idempotency_key,
     tweet_id |-> tweet_id, source |-> "scheduled", text |-> j.text]

\* lines 63-70: append_journal of the delivery entry
run_once_journal(p) ==
    /\ pc[p] = "journal"
    /\ journal' = append_journal(journal, DeliveryEntry(Cur(p), tweet[p]))
    /\ pc' = [pc EXCEPT ![p] = "mark"]
    /\ UNCHANGED <<store, lock, now, published, created, runs, edits, lc,
                   sched, due, k, posted, failed, tweet, raised, jmark, res,
                   info, status, resolved, peer, attempted, call>>

\* a failed append_journal that is swallowed: the job is marked all the same
run_once_journal_raises_Swallowed(p) ==
    /\ pc[p] = "journal"
    /\ pc' = [pc EXCEPT ![p] = "mark"]
    /\ UNCHANGED <<store, journal, lock, now, published, created, runs, edits, lc,
                   sched, due, k, posted, failed, tweet, raised, jmark, res,
                   info, status, resolved, peer, attempted, call>>

\* lines 63-70: append_journal raises OSError
run_once_journal_raises(p) ==
    /\ pc[p] = "journal"
    /\ raised' = [raised EXCEPT ![p] = "OSError"]
    /\ pc' = [pc EXCEPT ![p] = "heartbeat"]
    /\ UNCHANGED <<store, journal, lock, now, published, created, runs, edits, lc,
                   sched, due, k, posted, failed, tweet, jmark, res,
                   info, status, resolved, peer, attempted, call>>

\* lines 72-76: then mark the job
run_once_mark(p) ==
    /\ pc[p] = "mark"
    /\ sched' = SetCur(p, [Cur(p) EXCEPT !.status = "posted",
                                         !.posted_tweet_id = tweet[p],
                                         !.last_error = NoError])
    /\ posted' = [posted EXCEPT ![p] = Append(@, Cur(p).id)]
    /\ pc' = [pc EXCEPT ![p] = "heartbeat"]
    /\ UNCHANGED <<store, journal, lock, now, published, created, runs, edits, lc,
                   due, k, failed, tweet, raised, jmark, res,
                   info, status, resolved, peer, attempted, call>>

\* lines 82-84: the finally of a job attempt; an exception in flight goes on
\* to the outer finally, otherwise the loop goes to the next due job
run_once_heartbeat(p) ==
    /\ pc[p] = "heartbeat"
    /\ lock' = update_lock_heartbeat(lock, p, now)
    /\ IF raised[p] # "none"
       THEN /\ pc' = [pc EXCEPT ![p] = "release"]
            /\ UNCHANGED k
       ELSE /\ pc' = [pc EXCEPT ![p] = "loop"]
            /\ k' = [k EXCEPT ![p] = @ + 1]
    /\ UNCHANGED <<store, journal, now, published, created, runs, edits, lc,
                   sched, due, posted, failed, tweet, raised, jmark, res,
                   info, status, resolved, peer, attempted, call>>

\* line 46: the for loop is exhausted
run_once_loop_end(p) ==
    /\ pc[p] = "loop"
    /\ k[p] > Len(due[p])
    /\ pc' = [pc EXCEPT ![p] = "save"]
    /\ UNCHANGED <<store, journal, lock, now, published, created, runs, edits, lc,
                   sched, due, k, posted, failed, tweet, raised, jmark, res,
                   info, status, resolved, peer, attempted, call>>

\* a save that writes the run's results into the jobs the store holds now
run_once_save_Merge(p) ==
    /\ pc[p] = "save"
    /\ store' = [i \in 1..Len(store) |->
                    IF \E j \in 1..Len(sched[p]) : sched[p][j].id = store[i].id
                    THEN LET j == CHOOSE j \in 1..Len(sched[p]) : sched[p][j].id = store[i].id
                         IN [store[i] EXCEPT !.status = sched[p][j].status,
                                             !.attempt_count = sched[p][j].attempt_count,
                                             !.last_error = sched[p][j].last_error,
                                             !.posted_tweet_id = sched[p][j].posted_tweet_id]
                    ELSE store[i]]
    /\ pc' = [pc EXCEPT ![p] = "summary"]
    /\ UNCHANGED <<journal, lock, now, published, created, runs, edits, lc,
                   sched, due, k, posted, failed, tweet, raised, jmark, res,
                   info, status, resolved, peer, attempted, call>>

\* line 85: save_schedule
run_once_save(p) ==
    /\ pc[p] = "save"
    /\ store' = save_schedule(sched[p])
    /\ pc' = [pc EXCEPT ![p] = "summary"]
    /\ UNCHANGED <<journal, lock, now, published, created, runs, edits, lc,
                   sched, due, k, posted, failed, tweet, raised, jmark, res,
                   info, status, resolved, peer, attempted, call>>

\* a failed save_schedule that is caught and passed over
run_once_save_raises_Ignored(p) ==
    /\ pc[p] = "save"
    /\ pc' = [pc EXCEPT ![p] = "summary"]
    /\ UNCHANGED <<store, journal, lock, now, published, created, runs, edits, lc,
                   sched, due, k, posted, failed, tweet, raised, jmark, res,
                   info, status, resolved, peer, attempted, call>>

\* run_once without the outer try/finally: the exception leaves at once
run_once_save_raises_NoFinally(p) ==
    /\ pc[p] = "save"
    /\ pc' = [pc EXCEPT ![p] = "done"]
    /\ res' = [res EXCEPT ![p] = [NoRes EXCEPT !.state = "raised", !.reason = "OSError"]]
    /\ Forget(p)
    /\ UNCHANGED <<store, journal, lock, now, published, created, runs, edits, lc,
                   status, resolved, peer, attempted, call>>

\* line 85: save_schedule raises OSError
run_once_save_raises(p) ==
    /\ pc[p] = "save"
    /\ raised' = [raised EXCEPT ![p] = "OSError"]
    /\ pc' = [pc EXCEPT ![p] = "release"]
    /\ UNCHANGED <<store, journal, lock, now, published, created, runs, edits, lc,
                   sched, due, k, posted, failed, tweet, jmark, res,
                   info, status, resolved, peer, attempted, call>>

\* the summary with the posted jobs alone counted as checked
RunEntry_CheckedPosted(p) ==
    [type |-> "run", ok |-> TRUE, checked |-> Len(posted[p]),
     posted_count |-> Len(posted[p]), failed_count |-> Len(failed[p]),
     posted_ids |-> posted[p], failed_ids |-> failed[p],
     skipped |-> (Len(due[p]) = 0 /\ Len(posted[p]) = 0 /\ Len(failed[p]) = 0)]

\* lines 89-101: the run-summary entry
RunEntry(p) ==
    [type |-> "run", ok |-> TRUE, checked |-> Len(due[p]),
     posted_count |-> Len(posted[p]), failed_count |-> Len(failed[p]),
     posted_ids |-> posted[p], failed_ids |-> failed[p],
     skipped |-> (Len(due[p]) = 0 /\ Len(posted[p]) = 0 /\ Len(failed[p]) = 0)]

\* lines 89-101: append_journal of the run summary
run_once_summary(p) ==
    /\ pc[p] = "summary"
    /\ journal' = append_journal(journal, RunEntry(p))
    /\ pc' = [pc EXCEPT ![p] = "final_heartbeat"]
    /\ UNCHANGED <<store, lock, now, published, created, runs, edits, lc,
                   sched, due, k, posted, failed, tweet, raised, jmark, res,
                   info, status, resolved, peer, attempted, call>>

\* lines 89-101: append_journal raises OSError
run_once_summary_raises(p) ==
    /\ pc[p] = "summary"
    /\ raised' = [raised EXCEPT ![p] = "OSError"]
    /\ pc' = [pc EXCEPT ![p] = "release"]
    /\ UNCHANGED <<store, journal, lock, now, published, created, runs, edits, lc,
                   sched, due, k, posted, failed, tweet, jmark, res,
                   info, status, resolved, peer, attempted, call>>

\* line 103: the final heartbeat
run_once_final_heartbeat(p) ==
    /\ pc[p] = "final_heartbeat"
    /\ lock' = update_lock_heartbeat(lock, p, now)
    /\ pc' = [pc EXCEPT ![p] = "release"]
    /\ UNCHANGED <<store, journal, now, published, created, runs, edits, lc,
                   sched, due, k, posted, failed, tweet, raised, jmark, res,
                   info, status, resolved, peer, attempted, call>>

\* line 87: the dict a run that gets to line 104 returns
Result(p) == [ok |-> TRUE, posted |-> posted[p], failed |-> failed[p],
              checked |-> Len(due[p])]

\* lines 104-106: the outer finally, then the return or the exception
run_once_release(p) ==
    /\ pc[p] = "release"
    /\ lock' = release_lock(lock)
    /\ pc' = [pc EXCEPT ![p] = "done"]
    /\ res' = [res EXCEPT ![p] =
                 IF raised[p] # "none"
                 THEN [NoRes EXCEPT !.state = "raised", !.reason = raised[p]]
                 ELSE [NoRes EXCEPT !.state = "returned", !.ok = TRUE]]
    /\ Forget(p)
    /\ UNCHANGED <<store, journal, now, published, created, runs, edits, lc,
                   status, resolved, peer, attempted, call>>

\* the process is killed between two steps of run_once: nothing of it runs again
Kill(p) ==
    /\ pc[p] \in InRun
    /\ pc' = [pc EXCEPT ![p] = "killed"]
    /\ Forget(p)
    /\ UNCHANGED <<store, journal, lock, now, published, created, runs, edits, lc, res,
                   status, resolved, peer, attempted, call>>

\* ---- schedule.py: remove_job by a second client -----------------------------
\* lines 81-84: load_schedule and the filtered list
peer_remove_job(id) ==
    /\ peer.state = "idle"
    /\ edits < MaxEdits
    /\ edits' = edits + 1
    /\ peer' = [Idle EXCEPT !.state = "save", !.op = "remove",
                            !.snap = WithoutId(load_schedule(store), id)]
    /\ UNCHANGED <<store, journal, lock, now, published, created, runs, lc,
                   pc, sched, due, k, posted, failed, tweet, raised, jmark, res,
                   info, status, resolved, attempted, call>>

\* lines 85-87: save_schedule; the call has returned
peer_save ==
    /\ peer.state = "save"
    /\ store' = save_schedule(peer.snap)
    /\ peer' = [peer EXCEPT !.state = "idle", !.op = "removed"]
    /\ UNCHANGED <<journal, lock, now, published, created, runs, edits, lc,
                   pc, sched, due, k, posted, failed, tweet, raised, jmark, res,
                   info, status, resolved, attempted, call>>

\* ---- util.py, runner.py: runner.lock as the file system holds it ------------
\* runner.lock between its creation or truncation and the dump of the record:
\* the file exists and holds no JSON document
Empty == [exists |-> TRUE, pid |-> NoPid, started_at |-> 0, last_heartbeat |-> 0]

\* util.py lines 468-475: None (here NoLock) when the file is missing or
\* json.load raises
read_lock_info(file) ==
    IF ~file.exists THEN NoLock
    ELSE IF file = Empty THEN NoLock
    ELSE file

\* util.py lines 478-483: os.kill(pid, 0); a process has its pid from the
\* start of its invocation to its return or its death
pid_alive(pid) == pid \in Procs /\ pc[pid] \in InRun

NoStatus == [asked |-> FALSE, running |-> FALSE, pid |-> NoPid]

\* runner.py lines 21-27
runner_status_returns(file) ==
    LET rec == read_lock_info(file)
    IN IF ~rec.exists
       THEN [asked |-> TRUE, running |-> FALSE, pid |-> NoPid]
       ELSE [asked |-> TRUE, running |-> pid_alive(rec.pid), pid |-> rec.pid]

runner_status ==
    /\ status' = runner_status_returns(lock)
    /\ UNCHANGED <<store, journal, lock, now, published, created, runs, edits, lc,
                   pc, sched, due, k, posted, failed, tweet, raised, jmark, res,
                   info, resolved, peer, attempted, call>>

\* util.py lines 411-418, runner.py lines 31-35: os.open with O_CREAT | O_EXCL
\* made the file; data is not dumped yet
acquire_lock_create(p) ==
    /\ pc[p] \in {"idle", "done"}
    /\ runs < MaxRuns
    /\ ~lock.exists
    /\ lock' = Empty
    /\ info' = [info EXCEPT ![p] = [exists |-> TRUE, pid |-> p,
                                    started_at |-> now, last_heartbeat |-> now]]
    /\ pc' = [pc EXCEPT ![p] = "acquire"]
    /\ runs' = runs + 1
    /\ res' = [res EXCEPT ![p] = NoRes]
    /\ UNCHANGED <<store, journal, now, published, created, edits, lc,
                   sched, due, k, posted, failed, tweet, raised, jmark,
                   status, resolved, peer, attempted, call>>

\* util.py lines 419-427: json.dump, flush, fsync; acquire_lock returns
acquire_lock_dump(p) ==
    /\ pc[p] = "acquire"
    /\ lock' = info[p]
    /\ info' = [info EXCEPT ![p] = NoLock]
    /\ pc' = [pc EXCEPT ![p] = "load"]
    /\ UNCHANGED <<store, journal, now, published, created, runs, edits, lc,
                   sched, due, k, posted, failed, tweet, raised, jmark, res,
                   status, resolved, peer, attempted, call>>

\* where run_once goes on after the heartbeat of line 39 (the due list of
\* lines 40-44) and after the one of line 103
after_heartbeat(p) ==
    IF pc[p] = "due"
    THEN /\ due' = [due EXCEPT ![p] = Due(sched[p], now)]
         /\ k' = [k EXCEPT ![p] = 1]
         /\ pc' = [pc EXCEPT ![p] = "loop"]
    ELSE /\ pc' = [pc EXCEPT ![p] = "release"]
         /\ UNCHANGED <<due, k, attempted, call>>

\* util.py lines 452-459: the file is read; without a record of the caller's
\* pid the call returns, otherwise info holds the record with the new heartbeat
update_lock_heartbeat_read(p) ==
    /\ pc[p] \in {"due", "final_heartbeat"}
    /\ ~info[p].exists
    /\ LET rec == read_lock_info(lock)
       IN IF ~rec.exists \/ rec.pid # p
          THEN /\ after_heartbeat(p)
               /\ UNCHANGED info
          ELSE /\ info' = [info EXCEPT ![p] = [rec EXCEPT !.last_heartbeat = now]]
               /\ UNCHANGED <<pc, due, k, attempted, call>>
    /\ UNCHANGED <<store, journal, lock, now, published, created, runs, edits, lc,
                   sched, posted, failed, tweet, raised, jmark, res,
                   status, resolved, peer, attempted, call>>

\* util.py line 460: open(LOCK_PATH, "w") truncates the file in place
update_lock_heartbeat_open(p) ==
    /\ pc[p] \in {"due", "final_heartbeat"}
    /\ info[p].exists
    /\ lock # Empty
    /\ lock' = Empty
    /\ UNCHANGED <<store, journal, now, published, created, runs, edits, lc,
                   pc, sched, due, k, posted, failed, tweet, raised, jmark, res,
                   info, status, resolved, peer, attempted, call>>

\* util.py lines 461-463: json.dump, flush, fsync; update_lock_heartbeat returns
update_lock_heartbeat_dump(p) ==
    /\ pc[p] \in {"due", "final_heartbeat"}
    /\ info[p].exists
    /\ lock = Empty
    /\ lock' = info[p]
    /\ info' = [info EXCEPT ![p] = NoLock]
    /\ after_heartbeat(p)
    /\ UNCHANGED <<store, journal, now, published, created, runs, edits, lc,
                   sched, posted, failed, tweet, raised, jmark, res,
                   status, resolved, peer, attempted, call>>

\* ---- util.py: the lock API, one whole call at a time, by any caller ---------
MaxTime == 5        \* seconds of the clock of LockSpec

Second ==
    /\ now < MaxTime
    /\ now' = now + 1
    /\ UNCHANGED <<store, journal, lock, published, created, runs, edits, lc,
                   pc, sched, due, k, posted, failed, tweet, raised, jmark, res,
                   info, status, resolved, peer, attempted, call>>

\* info[p] keeps the data acquire_lock returned to p with its pid
acquire_lock_call(p) ==
    /\ LET r == acquire_lock(lock, p, now)
       IN /\ lock' = r.file
          /\ info' = [info EXCEPT ![p] = IF r.pid # NoPid THEN r.file ELSE NoLock]
    /\ UNCHANGED <<store, journal, now, published, created, runs, edits, lc,
                   pc, sched, due, k, posted, failed, tweet, raised, jmark, res,
                   status, resolved, peer, attempted, call>>

release_lock_call ==
    /\ lock' = release_lock(lock)
    /\ UNCHANGED <<store, journal, now, published, created, runs, edits, lc,
                   pc, sched, due, k, posted, failed, tweet, raised, jmark, res,
                   info, status, resolved, peer, attempted, call>>

update_lock_heartbeat_call(expected_pid) ==
    /\ lock' = update_lock_heartbeat(lock, expected_pid, now)
    /\ UNCHANGED <<store, journal, now, published, created, runs, edits, lc,
                   pc, sched, due, k, posted, failed, tweet, raised, jmark, res,
                   info, status, resolved, peer, attempted, call>>

\* ---- util.py: the time resolver, prime-time windows -----------------------
\* Local times are minutes on the wall clock of a timezone; a timezone is
\* taken at the UTC offset in force in the season of the call, so a call that
\* spans a daylight-saving transition is not modelled.
MaxHour == 23       \* hours of the day at which the resolver is called
MaxDays == 2        \* largest day offset of a request

Day == 24 * 60
FiveMinutes == LeadSeconds \div 60

Regions == {"EU", "NY", "CA", "ASIA"}
Parts == {"morning", "noon", "evening"}
Seasons == {"winter", "summer"}
NoTz == "None"      \* anchor_tz=None

\* lines 144-150: region -> tz, part -> (start_hour, end_hour_exclusive)
PRIME_WINDOWS ==
    [EU |-> [tz |-> "Europe/Berlin",
             morning |-> <<8, 11>>, noon |-> <<12, 14>>, evening |-> <<18, 22>>],
     NY |-> [tz |-> "America/New_York",
             morning |-> <<8, 11>>, noon |-> <<12, 14>>, evening |-> <<18, 22>>],
     CA |-> [tz |-> "America/Los_Angeles",
             morning |-> <<8, 11>>, noon |-> <<12, 14>>, evening |-> <<18, 22>>],
     ASIA |-> [tz |-> "Asia/Hong_Kong",
               morning |-> <<9, 12>>, noon |-> <<12, 14>>, evening |-> <<19, 22>>]]

\* lines 74-81: no name and "HKT" are Hong Kong
default_tz_from_name(name) ==
    IF name = NoTz \/ name = "HKT" THEN "Asia/Hong_Kong" ELSE name

\* dateutil's tzinfo.utcoffset, in minutes
utcoffset(tz, season) ==
    CASE tz = "Asia/Hong_Kong" -> 8 * 60
      [] tz = "Europe/Berlin" -> IF season = "summer" THEN 2 * 60 ELSE 60
      [] tz = "America/New_York" -> IF season = "summer" THEN -4 * 60 ELSE -5 * 60
      [] tz = "America/Los_Angeles" -> IF season = "summer" THEN -7 * 60 ELSE -8 * 60
      [] OTHER -> 0

\* replace(hour=0, minute=0, second=0, microsecond=0)
Midnight(wall) == (wall \div Day) * Day

NextDay(w) == [start |-> w.start + Day, end |-> w.end + Day]

\* lines 219-233: one round of the loop that fits the window's end into the
\* anchor day [u_start_utc, u_end_utc)
FitOnce(w, off, u_start_utc, u_end_utc) ==
    IF w.end - off < u_start_utc THEN NextDay(w)
    ELSE IF w.end - off >= u_end_utc THEN [start |-> w.start - Day, end |-> w.end - Day]
    ELSE w

\* lines 168-255 of _resolve_prime_time_keyword: the earliest instant and the
\* end of the window chosen (wall clock of the region), or the ValueError
prime_window(t, region, part, days_offset, anchor_tz, season) ==
    LET off == utcoffset(PRIME_WINDOWS[region].tz, season)
        hours == PRIME_WINDOWS[region][part]
        now_local == t + off
        anchored == anchor_tz # NoTz
        aoff == utcoffset(default_tz_from_name(anchor_tz), season)
        u_start_utc == Midnight(t + aoff) + days_offset * Day - aoff
        u_end_utc == u_start_utc + Day
        base_day == IF anchored THEN Midnight(u_start_utc + off)
                    ELSE Midnight(now_local) + days_offset * Day
        w0 == [start |-> base_day + hours[1] * 60, end |-> base_day + hours[2] * 60]
        w1 == IF anchored
              THEN FitOnce(FitOnce(w0, off, u_start_utc, u_end_utc),
                           off, u_start_utc, u_end_utc)
              ELSE w0
        \* lines 235-245
        soonest == IF w1.start > now_local + FiveMinutes THEN w1.start
                   ELSE now_local + FiveMinutes
        past == days_offset = 0 /\ soonest >= w1.end
        w2 == IF past THEN NextDay(w1) ELSE w1
        e2 == IF days_offset = 0 /\ ~past THEN soonest ELSE w2.start
        too_soon == /\ days_offset # 0
                    /\ Midnight(w1.start) = Midnight(now_local)
                    /\ w1.start <= now_local + FiveMinutes
        \* lines 247-255
        min_dt_reg == t + days_offset * Day + FiveMinutes + off
        pushed == anchored /\ days_offset > 0 /\ e2 < min_dt_reg
        over == pushed /\ min_dt_reg >= w2.end
        w3 == IF over THEN NextDay(w2) ELSE w2
        e3 == IF over THEN w3.start ELSE IF pushed THEN min_dt_reg ELSE e2
    IN [raised |-> too_soon, earliest |-> e3, end |-> w3.end, off |-> off]

\* lines 257-265: random.randint(0, total_seconds - 60), here its two extremes
Offsets(w, prefer_earliest) ==
    IF prefer_earliest \/ w.end - w.earliest <= 1 THEN {0}
    ELSE {0, w.end - w.earliest - 1}

NoRequest == [asked |-> FALSE]

\* the minutes of the hour at which the resolver is called
Minutes == {0, 30, 60 - FiveMinutes}
FirstDay == 10 * Day
Nows == {FirstDay + h * 60 + m : h \in 0..MaxHour, m \in Minutes}

\* lines 168-266: _resolve_prime_time_keyword for a spec "<region> <part>"
resolve_prime_time_keyword(region, part, prefer_earliest, days_offset, anchor_tz, season) ==
    /\ ~resolved.asked
    /\ LET w == prime_window(now, region, part, days_offset, anchor_tz, season)
       IN \E offset \in Offsets(w, prefer_earliest) :
             resolved' = [asked |-> TRUE, at |-> now,
                          region |-> region, part |-> part,
                          days_offset |-> days_offset, anchor_tz |-> anchor_tz,
                          raised |-> w.raised,
                          target |-> w.earliest + offset, off |-> w.off]
    /\ UNCHANGED <<store, journal, lock, now, published, created, runs, edits, lc,
                   pc, sched, due, k, posted, failed, tweet, raised, jmark, res,
                   info, status, peer, attempted, call>>

AnchorTzs == {NoTz, "HKT", "UTC", "America/New_York"}

\* The specs with a clock time: "HH:MM" (prefixed FALSE) and "{N}d HH:MM".
\* \d{1,2}:\d{2} lets through hours that replace(hour=h) rejects.
ClockMinutes == {0, 30, 60 - FiveMinutes + 1}
ClockSpecs ==
    [prefixed : {FALSE}, days : {0}, hour : 0..(MaxHour + 1), minute : ClockMinutes]
        \cup [prefixed : {TRUE}, days : 0..MaxDays, hour : 0..(MaxHour + 1),
              minute : ClockMinutes]

\* the --tz values of a caller
TzNames == {NoTz, "America/New_York"}

\* lines 103-141: resolve_time_spec for a spec with a clock time. The prefix
\* is split off into days_offset and remainder (111-116), the remainder is no
\* prime-time keyword (119-126), and \d{1,2}:\d{2} is matched against ts, the
\* spec with its prefix (127): a prefixed spec is returned as it came (141).
resolve_time_spec(ts, tz_name, season) ==
    /\ ~resolved.asked
    /\ LET tz_used == IF tz_name = NoTz THEN "HKT" ELSE tz_name
           off == utcoffset(default_tz_from_name(tz_used), season)
           now_local == now + off
           days_offset == IF ts.prefixed THEN ts.days ELSE 0
           at_clock == Midnight(now_local) + ts.hour * 60 + ts.minute
           next == IF at_clock <= now_local THEN at_clock + Day ELSE at_clock
           target == IF days_offset # 0 THEN next + (days_offset - 1) * Day ELSE next
           request == [asked |-> TRUE, at |-> now, ts |-> ts, tz_used |-> tz_used,
                       off |-> off, raised |-> FALSE, was_shorthand |-> FALSE,
                       target |-> 0]
       IN resolved' =
            IF ts.prefixed THEN request
            ELSE IF ts.hour > 23 \/ target <= now_local + FiveMinutes
                 THEN [request EXCEPT !.raised = TRUE]
                 ELSE [request EXCEPT !.was_shorthand = TRUE, !.target = target]
    /\ UNCHANGED <<store, journal, lock, now, published, created, runs, edits, lc,
                   pc, sched, due, k, posted, failed, tweet, raised, jmark, res,
                   info, status, peer, attempted, call>>


Init ==
    /\ store = <<>>
    /\ journal = <<>>
    /\ lock = NoLock
    /\ now = 0
    /\ published = <<>>
    /\ created = 0
    /\ runs = 0
    /\ edits = 0
    /\ lc = Idle
    /\ pc = [p \in Procs |-> "idle"]
    /\ sched = [p \in Procs |-> <<>>]
    /\ due = [p \in Procs |-> <<>>]
    /\ k = [p \in Procs |-> 0]
    /\ posted = [p \in Procs |-> <<>>]
    /\ failed = [p \in Procs |-> <<>>]
    /\ tweet = [p \in Procs |-> NoTweet]
    /\ raised = [p \in Procs |-> "none"]
    /\ jmark = [p \in Procs |-> 0]
    /\ res = [p \in Procs |-> NoRes]
    /\ info = [p \in Procs |-> NoLock]
    /\ status = NoStatus
    /\ resolved = NoRequest
    /\ peer = Idle
    /\ attempted = <<>>
    /\ call = NoCall

\* The steps of the run_once process p.
run_once(p) ==
    \/ run_once_acquire(p)
    \/ run_once_runner_active(p)
    \/ run_once_load(p)
    \/ run_once_due(p)
    \/ run_once_short_circuit(p)
    \/ run_once_attempt(p)
    \/ run_once_post_ok(p)
    \/ run_once_post_api_error(p)
    \/ run_once_post_raises(p)
    \/ run_once_journal(p)
    \/ run_once_journal_raises(p)
    \/ run_once_mark(p)
    \/ run_once_heartbeat(p)
    \/ run_once_loop_end(p)
    \/ run_once_save(p)
    \/ run_once_save_raises(p)
    \/ run_once_summary(p)
    \/ run_once_summary_raises(p)
    \/ run_once_final_heartbeat(p)
    \/ run_once_release(p)

\* The delivery engine with job creation: the clock, add_job (unlocked, so its
\* load and its save interleave with a run), run_once with its faults, kills.
Next ==
    \/ Tick
    \/ \E text \in TextsFor(created) : \E at \in Ats : add_job(text, at)
    \/ lifecycle_save
    \/ \E p \in Procs : run_once(p)
    \/ \E p \in Procs : Kill(p)

Spec == Init /\ [][Next]_vars

\* The lifecycle API alone, one call at a time, with save_schedule taken step
\* by step and the client killed or failing inside it.
Ids == 1..(created + 1)

LifecycleNext ==
    \/ Tick
    \/ \E text \in TextsFor(created) : \E at \in Ats : add_job(text, at)
    \/ \E id \in Ids : \E text \in {NoText} \cup Texts : \E at \in {NoAt} \cup Ats :
          update_job(id, text, at)
    \/ \E id \in Ids : remove_job(id)
    \/ \E since \in Sinces : list_jobs(since)
    \/ write_json_atomic_dump
    \/ write_json_atomic_flush
    \/ write_json_atomic_replace
    \/ write_json_atomic_raises
    \/ write_json_atomic_killed

LifecycleSpec == Init /\ [][LifecycleNext]_vars

\* no lifecycle call is under way
ClientIdle == lc.state = "idle"

\* no call of any kind is under way
Quiescent == ClientIdle /\ \A p \in Procs : pc[p] \notin InRun

\* process p is the one whose turn it is: processes are interchangeable, so
\* the invocations are made by the first process that was not killed
Alone(p) == ClientIdle /\ \A q \in Procs : q < p => pc[q] = "killed"

\* Every sequence of whole operations add_job, update_job, remove_job and
\* run_once: a call runs to its end before the next one starts. In a run
\* nothing but post_tweet fails, and that only with ApiError.
EditNext ==
    \/ lifecycle_save
    \/ ClientIdle /\ run_once_acquire(1)
    \/ ClientIdle /\ run_once_load(1)
    \/ ClientIdle /\ run_once_due(1)
    \/ ClientIdle /\ run_once_short_circuit(1)
    \/ ClientIdle /\ run_once_attempt(1)
    \/ ClientIdle /\ run_once_post_ok(1)
    \/ ClientIdle /\ run_once_post_api_error(1)
    \/ ClientIdle /\ run_once_journal(1)
    \/ ClientIdle /\ run_once_mark(1)
    \/ ClientIdle /\ run_once_heartbeat(1)
    \/ ClientIdle /\ run_once_loop_end(1)
    \/ ClientIdle /\ run_once_save(1)
    \/ ClientIdle /\ run_once_summary(1)
    \/ ClientIdle /\ run_once_final_heartbeat(1)
    \/ ClientIdle /\ run_once_release(1)
    \/ Quiescent /\ Tick
    \/ Quiescent /\ \E text \in TextsFor(created) : \E at \in Ats : add_job(text, at)
    \/ Quiescent /\ \E id \in Ids : \E text \in {NoText} \cup Texts : \E at \in {NoAt} \cup Ats :
                        update_job(id, text, at)
    \/ Quiescent /\ \E id \in Ids : remove_job(id)

EditSpec == Init /\ [][EditNext]_vars

\* Every sequence of the operations that write the journal, run_once with its
\* faults and kills and the immediate post, with add_job supplying the jobs.
JournalNext ==
    \/ lifecycle_save
    \/ \E p \in Procs : Alone(p) /\ run_once_acquire(p)
    \/ \E p \in Procs : Alone(p) /\ run_once_runner_active(p)
    \/ \E p \in Procs : Alone(p) /\ run_once_load(p)
    \/ \E p \in Procs : Alone(p) /\ run_once_due(p)
    \/ \E p \in Procs : Alone(p) /\ run_once_short_circuit(p)
    \/ \E p \in Procs : Alone(p) /\ run_once_attempt(p)
    \/ \E p \in Procs : Alone(p) /\ run_once_post_ok(p)
    \/ \E p \in Procs : Alone(p) /\ run_once_post_api_error(p)
    \/ \E p \in Procs : Alone(p) /\ run_once_post_raises(p)
    \/ \E p \in Procs : Alone(p) /\ run_once_journal(p)
    \/ \E p \in Procs : Alone(p) /\ run_once_journal_raises(p)
    \/ \E p \in Procs : Alone(p) /\ run_once_mark(p)
    \/ \E p \in Procs : Alone(p) /\ run_once_heartbeat(p)
    \/ \E p \in Procs : Alone(p) /\ run_once_loop_end(p)
    \/ \E p \in Procs : Alone(p) /\ run_once_save(p)
    \/ \E p \in Procs : Alone(p) /\ run_once_save_raises(p)
    \/ \E p \in Procs : Alone(p) /\ run_once_summary(p)
    \/ \E p \in Procs : Alone(p) /\ run_once_summary_raises(p)
    \/ \E p \in Procs : Alone(p) /\ run_once_final_heartbeat(p)
    \/ \E p \in Procs : Alone(p) /\ run_once_release(p)
    \/ \E p \in Procs : Alone(p) /\ Kill(p)
    \/ Quiescent /\ Tick
    \/ Quiescent /\ \E text \in TextsFor(created) : \E at \in Ats : add_job(text, at)
    \/ Quiescent /\ \E text \in Texts : cmd_post(text)

JournalSpec == Init /\ [][JournalNext]_vars

\* Every sequence of whole operations add_job, update_job of a text,
\* remove_job and run_once, where post_tweet may fail with ApiError and the
\* save_schedule of a run with OSError.
AttemptNext ==
    \/ lifecycle_save
    \/ ClientIdle /\ run_once_acquire(1)
    \/ ClientIdle /\ run_once_load(1)
    \/ ClientIdle /\ run_once_due(1)
    \/ ClientIdle /\ run_once_short_circuit(1)
    \/ ClientIdle /\ run_once_attempt(1)
    \/ ClientIdle /\ run_once_post_ok(1)
    \/ ClientIdle /\ run_once_post_api_error(1)
    \/ ClientIdle /\ run_once_journal(1)
    \/ ClientIdle /\ run_once_mark(1)
    \/ ClientIdle /\ run_once_heartbeat(1)
    \/ ClientIdle /\ run_once_loop_end(1)
    \/ ClientIdle /\ run_once_save(1)
    \/ ClientIdle /\ run_once_save_raises(1)
    \/ ClientIdle /\ run_once_summary(1)
    \/ ClientIdle /\ run_once_final_heartbeat(1)
    \/ ClientIdle /\ run_once_release(1)
    \/ Quiescent /\ Tick
    \/ Quiescent /\ \E text \in TextsFor(created) : \E at \in Ats : add_job(text, at)
    \/ Quiescent /\ \E id \in Ids : update_job(id, "b", NoAt)
    \/ Quiescent /\ \E id \in Ids : remove_job(id)

AttemptSpec == Init /\ [][AttemptNext]_vars

\* Every sequence of whole operations add_job, update_job of a text,
\* remove_job and fault-free run_once over a schedule.json that may be found
\* damaged.
DamageNext ==
    \/ lifecycle_save
    \/ ClientIdle /\ run_once_acquire(1)
    \/ ClientIdle /\ run_once_load(1)
    \/ ClientIdle /\ run_once_due(1)
    \/ ClientIdle /\ run_once_short_circuit(1)
    \/ ClientIdle /\ run_once_attempt(1)
    \/ ClientIdle /\ run_once_post_ok(1)
    \/ ClientIdle /\ run_once_journal(1)
    \/ ClientIdle /\ run_once_mark(1)
    \/ ClientIdle /\ run_once_heartbeat(1)
    \/ ClientIdle /\ run_once_loop_end(1)
    \/ ClientIdle /\ run_once_save(1)
    \/ ClientIdle /\ run_once_summary(1)
    \/ ClientIdle /\ run_once_final_heartbeat(1)
    \/ ClientIdle /\ run_once_release(1)
    \/ Quiescent /\ Tick
    \/ Quiescent /\ \E text \in TextsFor(created) : \E at \in Ats : add_job(text, at)
    \/ Quiescent /\ \E id \in Ids : update_job(id, "b", NoAt)
    \/ Quiescent /\ \E id \in Ids : remove_job(id)
    \/ Quiescent /\ schedule_damaged

DamageSpec == Init /\ [][DamageNext]_vars

\* One call of post_tweet with any max_attempts and any sequence of responses.
RetryNext ==
    \/ \E max_attempts \in 0..MaxAttempts : post_tweet_call(max_attempts)
    \/ \E st \in Statuses : \E body \in Bodies : post_tweet_response(st, body)
    \/ post_tweet_request_raises

RetrySpec == Init /\ [][RetryNext]_vars

\* The lock API alone: whole calls of acquire_lock, release_lock and
\* update_lock_heartbeat by any caller with any expected pid, and runner_status.
LockNext ==
    \/ Second
    \/ \E p \in Procs : acquire_lock_call(p)
    \/ release_lock_call
    \/ \E e \in Procs \cup {NoPid} : update_lock_heartbeat_call(e)
    \/ runner_status

LockSpec == Init /\ [][LockNext]_vars

\* run_once over an empty store, with every write of runner.lock taken step by
\* step, and runner_status called at any moment.
StatusNext ==
    \/ Tick
    \/ runner_status
    \/ \E p \in Procs : acquire_lock_create(p)
    \/ \E p \in Procs : acquire_lock_dump(p)
    \/ \E p \in Procs : run_once_runner_active(p)
    \/ \E p \in Procs : run_once_load(p)
    \/ \E p \in Procs : update_lock_heartbeat_read(p)
    \/ \E p \in Procs : update_lock_heartbeat_open(p)
    \/ \E p \in Procs : update_lock_heartbeat_dump(p)
    \/ \E p \in Procs : run_once_loop_end(p)
    \/ \E p \in Procs : run_once_save(p)
    \/ \E p \in Procs : run_once_summary(p)
    \/ \E p \in Procs : run_once_release(p)
    \/ \E p \in Procs : Kill(p)

StatusSpec == Init /\ [][StatusNext]_vars

\* The time resolver alone: one call of _resolve_prime_time_keyword at any of
\* the instants Nows.
WindowInit ==
    /\ now \in Nows
    /\ store = <<>> /\ journal = <<>> /\ lock = NoLock /\ published = <<>>
    /\ created = 0 /\ runs = 0 /\ edits = 0 /\ lc = Idle /\ peer = Idle
    /\ pc = [p \in Procs |-> "idle"]
    /\ sched = [p \in Procs |-> <<>>] /\ due = [p \in Procs |-> <<>>]
    /\ k = [p \in Procs |-> 0]
    /\ posted = [p \in Procs |-> <<>>] /\ failed = [p \in Procs |-> <<>>]
    /\ tweet = [p \in Procs |-> NoTweet] /\ raised = [p \in Procs |-> "none"]
    /\ jmark = [p \in Procs |-> 0] /\ res = [p \in Procs |-> NoRes]
    /\ info = [p \in Procs |-> NoLock]
    /\ status = NoStatus
    /\ resolved = NoRequest
    /\ attempted = <<>>
    /\ call = NoCall

WindowNext ==
    \E region \in Regions : \E part \in Parts : \E prefer_earliest \in BOOLEAN :
        \E days_offset \in 0..MaxDays : \E anchor_tz \in AnchorTzs :
            \E season \in Seasons :
                resolve_prime_time_keyword(region, part, prefer_earliest,
                                           days_offset, anchor_tz, season)

WindowSpec == WindowInit /\ [][WindowNext]_vars

\* The time resolver alone: one call of resolve_time_spec with a clock time at
\* any of the instants Nows.
ClockNext ==
    \E ts \in ClockSpecs : \E tz_name \in TzNames : \E season \in Seasons :
        resolve_time_spec(ts, tz_name, season)

ClockSpec == WindowInit /\ [][ClockNext]_vars

\* Lifecycle calls of two clients at any moment of the runs of process 1:
\* add_job and update_job by the first, remove_job by the second; no faults.
RaceNext ==
    \/ Tick
    \/ add_job("a", LeadSeconds + 1)
    \/ \E id \in Ids : update_job(id, "b", NoAt)
    \/ lifecycle_save
    \/ \E id \in Ids : peer_remove_job(id)
    \/ peer_save
    \/ run_once_acquire(1)
    \/ run_once_load(1)
    \/ run_once_due(1)
    \/ run_once_short_circuit(1)
    \/ run_once_attempt(1)
    \/ run_once_post_ok(1)
    \/ run_once_post_api_error(1)
    \/ run_once_journal(1)
    \/ run_once_mark(1)
    \/ run_once_heartbeat(1)
    \/ run_once_loop_end(1)
    \/ run_once_save(1)
    \/ run_once_summary(1)
    \/ run_once_final_heartbeat(1)
    \/ run_once_release(1)

RaceSpec == Init /\ [][RaceNext]_vars


\* ---- properties ------------------------------------------------------------
Jobs(jobs) == {jobs[i] : i \in 1..Len(jobs)}

Deliveries == {e \in Jobs(journal) : e.type = "delivery"}

\* the tweet ids the journal holds for a key
Journaled(key) ==
    {e.tweet_id : e \in {d \in Deliveries : d.idempotency_key = key /\ d.tweet_id # NoTweet}}

\* C1: at-most-once delivery: the posting collaborator returns success at most
\* once for any given job, whatever run_once invocations were killed or failed.
AtMostOnceDelivery ==
    \A i, j \in 1..Len(published) : published[i].job = published[j].job => i = j

\* C2: idempotent delivery: the journal holds at most one scheduled delivery
\* entry per idempotency key; the posting collaborator is never called for a job
\* whose key the journal holds; and a run that loaded the store when the journal
\* held an entry with tweet id T for a job's key leaves that job posted with T.
IdempotentDelivery ==
    /\ \A i, j \in 1..Len(journal) :
          (/\ journal[i].type = "delivery" /\ journal[j].type = "delivery"
           /\ journal[i].idempotency_key = journal[j].idempotency_key) => i = j
    /\ \A p \in Procs : pc[p] = "post" => Journaled(Cur(p).idempotency_key) = {}
    /\ \A p \in Procs : pc[p] = "save" =>
          \A i \in 1..Len(sched[p]) : \A e \in Jobs(SubSeq(journal, 1, jmark[p])) :
              (/\ e.type = "delivery"
               /\ e.idempotency_key = sched[p][i].idempotency_key) =>
                  /\ sched[p][i].status = "posted"
                  /\ sched[p][i].posted_tweet_id = e.tweet_id

Holders == {p \in Procs : pc[p] \in InRun \cup {"killed"}}

\* C4: mutual exclusion: at most one invocation is between its acquire_lock
\* and its release_lock (a killed one never releases), the lock record names
\* it, and an invocation that starts while the lock record exists returns
\* ok=false, reason runner_active.
MutualExclusion ==
    /\ [](/\ Cardinality(Holders) <= 1
          /\ \A p \in Holders : lock.exists /\ lock.pid = p)
    /\ [][(lock.exists /\ runs' = runs + 1) =>
            /\ \A p \in Procs : pc'[p] \in InRun => pc[p] \in InRun
            /\ \E p \in Procs :
                  /\ pc[p] \in {"idle", "done"} /\ pc'[p] = "done"
                  /\ res'[p].state = "returned" /\ ~res'[p].ok
                  /\ res'[p].reason = "runner_active"]_vars

\* C4 witness: one invocation is in its run and the other has returned runner_active.
RunnerActiveSeen ==
    \E p, q \in Procs :
        /\ pc[p] \in InRun
        /\ pc[q] = "done" /\ res[q].reason = "runner_active"

\* C5: an invocation that fails to acquire the lock returns in that one step
\* and changes no file, calls no posting collaborator and loads nothing.
RunnerActiveNoEffect ==
    [][(runs' = runs + 1 /\ \A q \in Procs : pc'[q] = "load" => pc[q] = "load") =>
         /\ \E p \in Procs : pc[p] \in {"idle", "done"} /\ pc'[p] = "done"
                             /\ res'[p].reason = "runner_active"
         /\ UNCHANGED <<store, journal, lock, published>>
         /\ UNCHANGED <<sched, due, posted, failed>>]_vars

\* C5 witness: the active run goes on to post after the other invocation
\* returned runner_active.
ActiveRunUndisturbed ==
    \E p, q \in Procs :
        /\ pc[p] = "post" /\ lock.exists /\ lock.pid = p
        /\ pc[q] = "done" /\ res[q].reason = "runner_active"

\* C6: an invocation that acquired the lock and is not killed ends only with
\* the lock record absent, whether it returns or raises.
LockReleasedOnEveryExit ==
    [][\A p \in Procs :
         (pc[p] \in InRun /\ pc'[p] \notin InRun /\ pc'[p] # "killed") =>
            /\ pc'[p] = "done"
            /\ ~lock'.exists]_vars

\* C6 witness: an invocation ended by an OSError of append_journal or
\* save_schedule, and the lock record is absent.
RaisedAndReleased ==
    \E p \in Procs :
        /\ pc[p] = "done" /\ res[p].state = "raised" /\ res[p].reason = "OSError"
        /\ ~lock.exists

\* C7: a failed job is eligible again: a run that has computed its due list
\* has every failed job of its snapshot in it (a failed job's time is past).
FailedJobsRetried ==
    \A p \in Procs : pc[p] \in (InRun \ {"load", "due", "release"}) =>
        \A i \in 1..Len(sched[p]) :
            (sched[p][i].status = "failed" /\ sched[p][i].time_utc <= now) =>
                \E n \in 1..Len(due[p]) : due[p][n] = i

\* C8: whatever way post_tweet fails for a due job, the job is recorded as
\* failed with last_error set and the batch goes on.
PostFailureKeepsBatch ==
    [][\A p \in Procs :
         (pc[p] = "post" /\ pc'[p] \notin {"post", "journal", "killed"}) =>
            /\ sched'[p][due[p][k[p]]].status = "failed"
            /\ sched'[p][due[p][k[p]]].last_error # NoError
            /\ raised'[p] = "none"]_vars

Stored(jobs) ==
    \A i \in 1..Len(jobs) :
        jobs[i].status = "posted" =>
            /\ jobs[i].posted_tweet_id # NoTweet
            /\ \E e \in Deliveries : e.tweet_id = jobs[i].posted_tweet_id

\* C9: journal-first ordering: every job that is posted with tweet id T, in the
\* persisted store, in the memory of a run or in a snapshot a lifecycle call is
\* about to write, has a journal delivery entry with tweet_id T.
JournalFirst ==
    /\ Stored(store)
    /\ \A p \in Procs : Stored(sched[p])
    /\ Stored(lc.snap)

\* C9 witness: the store holds a posted job, a run was killed and a lifecycle
\* call is between its load and its save.
PostedKilledEdited ==
    /\ \E i \in 1..Len(store) : store[i].status = "posted"
    /\ \E p \in Procs : pc[p] = "killed"
    /\ lc.state = "save"

\* C10: add_job rejects every resolved instant earlier than now + 5 minutes
\* and writes nothing; it accepts now + 5 minutes + 1 second and has the store
\* with the new pending job appended to write.
LeadTimeOnCreate ==
    [][\A text \in Texts : \A at \in Ats :
         add_job(text, at) =>
            /\ at < now + LeadSeconds =>
                  (lc'.state = "idle" /\ store' = store /\ created' = created)
            /\ at = now + LeadSeconds + 1 =>
                  /\ lc'.state = "save" /\ created' = created + 1
                  /\ Len(lc'.snap) = Len(store) + 1
                  /\ SubSeq(lc'.snap, 1, Len(store)) = store
                  /\ lc'.snap[Len(store) + 1].time_utc = at
                  /\ lc'.snap[Len(store) + 1].text = text
                  /\ lc'.snap[Len(store) + 1].status = "pending"]_vars

\* C10 witness: a job created exactly 5 minutes and 1 second ahead is in the store.
CreatedAtLeadPlusOne ==
    /\ now = 0
    /\ \E i \in 1..Len(store) : store[i].time_utc = now + LeadSeconds + 1

\* C11: lead-time on update: whenever update_job has a new time_utc for a job
\* to write, that instant is at least 5 minutes after now.
LeadTimeOnUpdate ==
    [][(lc.state = "idle" /\ lc'.state = "save" /\ lc'.op = "update") =>
          \A i \in 1..Len(store) :
              lc'.snap[i].time_utc # store[i].time_utc =>
                  lc'.snap[i].time_utc >= now + LeadSeconds]_vars

\* C12: a successful add_job writes the store it loaded with exactly one job
\* appended, that job pending with attempt_count 0, last_error null and
\* posted_tweet_id null; a rejected add_job leaves nothing to write.
AddJobFrame ==
    /\ [][(lc.op = "add" /\ store' # store) =>
            /\ Len(store') = Len(store) + 1
            /\ SubSeq(store', 1, Len(store)) = store
            /\ store'[Len(store')].status = "pending"
            /\ store'[Len(store')].attempt_count = 0
            /\ store'[Len(store')].last_error = NoError
            /\ store'[Len(store')].posted_tweet_id = NoTweet]_vars
    /\ [][(created' = created + 1) =>
            (lc'.state = "save" /\ lc'.op = "add" /\ Len(lc'.snap) = Len(store) + 1)]_vars
    /\ [][\A text \in Texts : \A at \in Ats :
            (add_job(text, at) /\ created' = created) =>
                (lc'.state = "idle" /\ lc'.tmp = <<>> /\ store' = store)]_vars

\* C12 witness: a second job was appended behind the first.
SecondJobAppended ==
    /\ Len(store) = 2
    /\ store[1].id = 1 /\ store[2].id = 2
    /\ lc.state = "idle"

\* C13: idempotency-key invariant: every stored job's idempotency_key is
\* compute_idempotency_key of its current text and time_utc, so two stored jobs
\* have equal keys exactly when they have equal (text, time_utc).
IdempotencyKeyInvariant ==
    /\ \A i \in 1..Len(store) :
          store[i].idempotency_key = compute_idempotency_key(store[i].text, store[i].time_utc)
    /\ \A i, j \in 1..Len(store) :
          (store[i].idempotency_key = store[j].idempotency_key)
              <=> (store[i].text = store[j].text /\ store[i].time_utc = store[j].time_utc)

\* C13 witness: the first job's text was edited, and two jobs that agree in
\* text and time are stored, one of them delivered.
KeyRecomputedAndDelivered ==
    /\ Len(store) = 2
    /\ \E i \in 1..Len(store) : store[i].id = 1 /\ store[i].text = "b"
    /\ store[1].idempotency_key = store[2].idempotency_key
    /\ \E i \in 1..Len(store) : store[i].status = "posted"

IdsDistinct(jobs) == \A i, j \in 1..Len(jobs) : jobs[i].id = jobs[j].id => i = j

\* C14: unique ids: no two jobs have the same id, in the store, in a run's
\* snapshot or in a snapshot about to be written; update_job and the steps of
\* run_once leave the id of every job they hold as it was.
UniqueIds ==
    /\ [](/\ IdsDistinct(store)
          /\ IdsDistinct(lc.snap)
          /\ \A p \in Procs : IdsDistinct(sched[p]))
    /\ [][\A p \in Procs : Len(sched'[p]) = Len(sched[p]) =>
            \A i \in 1..Len(sched[p]) : sched'[p][i].id = sched[p][i].id]_vars
    /\ [][(lc.state = "idle" /\ lc'.state = "save" /\ lc'.op = "update") =>
            /\ Len(lc'.snap) = Len(store)
            /\ \A i \in 1..Len(store) : lc'.snap[i].id = store[i].id]_vars
    /\ [][\A p \in Procs : pc[p] = "save" /\ pc'[p] = "summary" =>
            /\ Len(store') = Len(sched[p])
            /\ \A i \in 1..Len(store') : store'[i].id = sched[p][i].id]_vars

\* C14 witness: two jobs are stored after an edit and a delivery.
TwoJobsEditedDelivered ==
    /\ Len(store) = 2 /\ store[1].id # store[2].id
    /\ edits = 1
    /\ \E i \in 1..Len(store) : store[i].status = "posted"

\* C15: update_job changes only what was provided: text alone leaves time_utc,
\* a time alone leaves text; id, status, attempt_count, last_error and
\* posted_tweet_id of the job and every other job stay as they were; for an id
\* no stored job has, it raises and has nothing to write.
UpdateJobFrame ==
    [][\A id \in 1..(MaxJobs + 1) : \A text \in {NoText} \cup Texts : \A at \in {NoAt} \cup Ats :
         update_job(id, text, at) =>
            IF \E i \in 1..Len(store) : store[i].id = id
            THEN /\ lc'.state = "save"
                 /\ Len(lc'.snap) = Len(store)
                 /\ \A i \in 1..Len(store) :
                       IF store[i].id # id
                       THEN lc'.snap[i] = store[i]
                       ELSE /\ lc'.snap[i].id = store[i].id
                            /\ lc'.snap[i].status = store[i].status
                            /\ lc'.snap[i].attempt_count = store[i].attempt_count
                            /\ lc'.snap[i].last_error = store[i].last_error
                            /\ lc'.snap[i].posted_tweet_id = store[i].posted_tweet_id
                            /\ lc'.snap[i].text = (IF text = NoText THEN store[i].text ELSE text)
                            /\ lc'.snap[i].time_utc = (IF at = NoAt THEN store[i].time_utc ELSE at)
            ELSE /\ lc'.state = "idle" /\ lc'.tmp = <<>>
                 /\ store' = store]_vars

\* C15 witness: the second of two stored jobs carries an edited time, the
\* first is as it was created.
SecondJobRetimed ==
    /\ Len(store) = 2 /\ edits = 1 /\ lc.state = "idle"
    /\ store[1] = NewJob(1, "a", LeadSeconds + 1)
    /\ store[2].id = 2 /\ store[2].time_utc = LeadSeconds - 1

\* C16: once a stored job is posted, no update_job call has a snapshot to write
\* in which its text, time_utc or idempotency_key differ.
PostedJobImmutable ==
    [][(lc.state = "idle" /\ lc'.state = "save" /\ lc'.op = "update") =>
          \A i \in 1..Len(store) :
              store[i].status = "posted" =>
                  /\ lc'.snap[i].text = store[i].text
                  /\ lc'.snap[i].time_utc = store[i].time_utc
                  /\ lc'.snap[i].idempotency_key = store[i].idempotency_key]_vars

\* C17: remove_job returns true exactly when the store held a job with the id;
\* what it writes is the store without that job, the others unchanged and in
\* their order; when it returns false that is the store as it was.
RemoveJobFrame ==
    [][\A id \in 1..(MaxJobs + 1) :
         remove_job(id) =>
            /\ remove_job_returns(store, id) <=> (\E i \in 1..Len(store) : store[i].id = id)
            /\ lc'.state = "save"
            /\ \A i \in 1..Len(lc'.snap) : lc'.snap[i].id # id
            /\ lc'.snap = SelectSeq(store, LAMBDA j : j.id # id)
            /\ ~remove_job_returns(store, id) => lc'.snap = store]_vars

\* C17 witness: of two stored jobs the first was removed and the second stays.
FirstJobRemoved ==
    /\ Len(store) = 1 /\ store[1].id = 2
    /\ edits = 1 /\ lc.state = "idle"

\* C18: list_jobs returns every stored job (with a cutoff: every stored job at
\* or after it) exactly once, in non-decreasing order of time_utc, and leaves
\* the store as it is.
ListJobsSorted ==
    [][\A since \in Sinces :
         list_jobs(since) =>
            LET r == lc'.snap
                wanted == {i \in 1..Len(store) : since = NoSince \/ store[i].time_utc >= since}
            IN /\ store' = store
               /\ Len(r) = Cardinality(wanted)
               /\ \A i \in wanted : Cardinality({n \in 1..Len(r) : r[n] = store[i]}) = 1
               /\ \A n \in 1..Len(r) : \E i \in wanted : r[n] = store[i]
               /\ \A n \in 1..(Len(r) - 1) : r[n].time_utc <= r[n + 1].time_utc]_vars

\* C18 witness: the list holds two jobs in the opposite of their stored order.
ListedOutOfStoredOrder ==
    /\ lc.op = "list" /\ Len(lc.snap) = 2 /\ Len(store) = 2
    /\ lc.snap[1] = store[2] /\ lc.snap[2] = store[1]
    /\ store[2].time_utc < store[1].time_utc

\* C19: atomic snapshot: schedule.json always parses, and a step either leaves
\* what load_schedule reads as it was or replaces it by the complete new
\* snapshot, which happens only at the rename.
AtomicSnapshot ==
    /\ [](Parses(store))
    /\ [][\/ load_schedule(store') = load_schedule(store)
          \/ /\ lc.state = "written"
             /\ load_schedule(store') = lc.snap]_vars

\* C19 witness: the client was killed with its temp file completely written and
\* not renamed; schedule.json holds the previous, non-empty snapshot.
KilledBeforeRename ==
    /\ lc.op = "killed" /\ lc.tmp # <<>> /\ Parses(lc.tmp)
    /\ store # <<>> /\ store # lc.tmp

\* C20: the journal is append-only: every step leaves the journal it found as
\* a prefix of the journal it leaves.
JournalAppendOnly ==
    [][/\ Len(journal') >= Len(journal)
       /\ SubSeq(journal', 1, Len(journal)) = journal]_vars

\* C20 witness: the journal holds an immediate post followed by a scheduled
\* delivery and a run summary.
JournalOfAllKinds ==
    \E i, j, n \in 1..Len(journal) :
        /\ i < j /\ j < n
        /\ journal[i].type = "immediate"
        /\ journal[j].type = "delivery"
        /\ journal[n].type = "run"

ReleaseLockIdempotent ==
    /\ ~release_lock(lock).exists
    /\ release_lock(release_lock(lock)) = release_lock(lock)
    /\ \A p \in Procs :
          LET r == acquire_lock(release_lock(lock), p, now)
          IN r.pid = p /\ r.file.exists /\ r.file.pid = p

\* C22 witness: a process that had acquired the lock sees it held by the
\* other one, acquired later: the record was released in between.
ReleasedAndAcquired ==
    \E p, q \in Procs :
        /\ p # q
        /\ info[p].exists
        /\ lock.exists /\ lock.pid = q
        /\ info[p].started_at < lock.started_at

\* C23: runner_status reports running=true exactly when a lock record exists
\* and the process of its pid is alive; in particular it reports running=true
\* at every moment at which a live run_once holds the lock, also while that
\* run rewrites the record for a heartbeat.
RunnerStatusLive ==
    [][status' # status =>
          /\ status'.running <=> (lock.exists /\ lock.pid \in Procs
                                  /\ pc[lock.pid] \notin {"idle", "done", "killed"})
          /\ (\E p \in Procs : pc[p] \notin {"idle", "done", "killed", "acquire"})
                 => status'.running]_vars

\* C25: a stale lock is never reaped: no step replaces an existing lock
\* record by another; while the record of a killed run exists, it stays as it
\* is, nothing is posted, and every invocation that starts returns runner_active.
StaleLockNeverReaped ==
    /\ [][(lock.exists /\ lock'.exists) =>
             lock'.pid = lock.pid /\ lock'.started_at = lock.started_at]_vars
    /\ [][\A p \in Procs :
             (pc[p] = "killed" /\ lock.exists /\ lock.pid = p) =>
                 /\ lock' = lock
                 /\ published' = published
                 /\ \A q \in Procs :
                       pc'[q] # pc[q] =>
                           /\ pc'[q] = "done"
                           /\ res'[q].state = "returned" /\ ~res'[q].ok
                           /\ res'[q].reason = "runner_active"]_vars

\* C25 witness: the holder of the lock is dead, a job is due and pending, and
\* the other process has been told runner_active.
StaleLockBlocks ==
    \E p, q \in Procs :
        /\ pc[p] = "killed" /\ lock.exists /\ lock.pid = p
        /\ pc[q] = "done" /\ res[q].reason = "runner_active"
        /\ \E i \in 1..Len(store) :
              store[i].status = "pending" /\ store[i].time_utc <= now

\* C24: window resolution bounds: whatever the current time, the anchor
\* timezone and the day offset, the instant resolved for a prime-time window
\* lies in the window on the wall clock of the window's timezone
\* (start <= local(t) < end) and is not before the current time (t >= now).
WindowResolutionBounds ==
    (resolved.asked /\ ~resolved.raised) =>
        LET hours == PRIME_WINDOWS[resolved.region][resolved.part]
            local == resolved.target % Day
        IN /\ hours[1] * 60 <= local
           /\ local < hours[2] * 60
           /\ resolved.target - resolved.off >= resolved.at

\* C26: bounded response within one run: the snapshot a run persists holds
\* every job that was pending with time_utc <= now in the snapshot it loaded
\* as posted or failed, none as pending or in_progress; the snapshot stays
\* until the run returns; and the loop takes the due jobs in stored order.
BoundedResponse ==
    /\ [][\A p \in Procs :
             (pc[p] = "save" /\ pc'[p] = "summary") =>
                 /\ Len(store') = Len(store)
                 /\ \A i \in 1..Len(store) :
                       (store[i].status = "pending" /\ store[i].time_utc <= now) =>
                           /\ store'[i].id = store[i].id
                           /\ store'[i].status \in {"posted", "failed"}]_vars
    /\ [][\A p \in Procs :
             pc[p] \in {"summary", "final_heartbeat", "release"} => store' = store]_vars
    /\ [][\A p \in Procs :
             (res'[p].ok /\ ~res[p].ok) => pc[p] = "release" /\ raised[p] = "none"]_vars
    /\ [][\A p \in Procs :
             Len(sched'[p]) = Len(sched[p]) =>
                 \A i \in 1..Len(sched[p]) :
                     (sched[p][i].status = "pending" /\ sched'[p][i].status # "pending") =>
                         \A j \in 1..(i - 1) :
                             ~(sched[p][j].status = "pending"
                               /\ sched[p][j].time_utc <= now)]_vars

\* C26 witness: a run has returned ok=true and left a posted and a failed job.
RunPostedAndFailed ==
    \E p \in Procs :
        /\ pc[p] = "done" /\ res[p].state = "returned" /\ res[p].ok
        /\ \E i, j \in 1..Len(store) :
              store[i].status = "posted" /\ store[j].status = "failed"

\* C27: frame of run_once: a run writes the store at its save_schedule only;
\* the snapshot written has the jobs of the snapshot loaded, in the same
\* places, with their id, text, time_utc and idempotency_key, and every job
\* that was not due (not pending, or pending with time_utc > now) as it was.
RunOnceFrame ==
    [][(store' # store /\ lc.state # "save") =>
          /\ \E p \in Procs : pc[p] = "save" /\ pc'[p] = "summary"
          /\ Len(store') = Len(store)
          /\ \A i \in 1..Len(store) :
                /\ store'[i].id = store[i].id
                /\ store'[i].text = store[i].text
                /\ store'[i].time_utc = store[i].time_utc
                /\ store'[i].idempotency_key = store[i].idempotency_key
                /\ (store[i].status # "pending" \/ store[i].time_utc > now)
                       => store'[i] = store[i]]_vars

\* C27 witness: the last run found nothing due in a store that holds a job an
\* earlier run had marked failed, saved, and wrote its summary.
RunLeftFailedJob ==
    /\ journal # <<>>
    /\ journal[Len(journal)].type = "run"
    /\ journal[Len(journal)].checked = 0
    /\ \E i \in 1..Len(store) : store[i].status = "failed"

\* C28: the store is written once per run, at the save_schedule that follows
\* the loop over all due jobs, never per job; hence no persisted snapshot
\* ever holds a job in_progress, whatever kill or exception ends a batch.
SnapshotOncePerRun ==
    /\ [](\A i \in 1..Len(store) : store[i].status # "in_progress")
    /\ [][(store' # store /\ lc.state # "save") =>
             \E p \in Procs :
                 /\ pc[p] = "save" /\ pc'[p] = "summary"
                 /\ k[p] > Len(due[p])
                 /\ \A i \in 1..Len(sched[p]) : sched[p][i].status # "in_progress"
                 /\ store' = sched[p]]_vars
    /\ [][\A p \in Procs :
             pc[p] = "save" => pc'[p] \in {"save", "summary", "release", "killed"}]_vars

\* C28 witness: a run was killed after it had posted a job and before its
\* save_schedule: the job is persisted as pending.
KilledMidBatch ==
    \E p \in Procs :
        /\ pc[p] = "killed"
        /\ \E n \in 1..Len(published) : \E i \in 1..Len(store) :
              store[i].id = published[n].job /\ store[i].status = "pending"

\* C29: lost update: add_job, update_job and remove_job leave the lock alone
\* and commit whether or not it is held; every save writes the snapshot its
\* caller loaded, so the save_schedule of a run puts back the jobs, texts and
\* times the run loaded whatever a lifecycle call has committed since, also
\* when the run found nothing due, and so does the later of two lifecycle saves.
LostUpdate ==
    /\ [][(lc' # lc \/ peer' # peer) => lock' = lock]_vars
    /\ [][\A p \in Procs :
             (pc[p] \in InRun \ {"load"} /\ pc'[p] \in InRun) =>
                 /\ Len(sched'[p]) = Len(sched[p])
                 /\ \A i \in 1..Len(sched[p]) :
                       /\ sched'[p][i].id = sched[p][i].id
                       /\ sched'[p][i].text = sched[p][i].text
                       /\ sched'[p][i].time_utc = sched[p][i].time_utc]_vars
    /\ [][\A p \in Procs :
             (pc[p] = "save" /\ pc'[p] = "summary") => store' = sched[p]]_vars
    /\ [][(lc.state = "save" /\ lc'.state = "idle") => store' = lc.snap]_vars
    /\ [][(peer.state = "save" /\ peer'.state = "idle") => store' = peer.snap]_vars

\* C29 witness: the second client's remove_job of job 1 has committed, leaving
\* job 2 alone in the store; the one run there was found nothing due, and its
\* save has put job 1 back.
RemovedJobReappears ==
    /\ peer.state = "idle" /\ peer.op = "removed"
    /\ Len(peer.snap) = 1 /\ peer.snap[1].id = 2
    /\ runs = 1
    /\ journal # <<>>
    /\ journal[Len(journal)].type = "run" /\ journal[Len(journal)].checked = 0
    /\ \E i \in 1..Len(store) : store[i].id = 1

\* C30: posted is absorbing: under any interleaving of runs with add_job,
\* update_job and remove_job, a job persisted as posted with tweet id T is
\* posted with tweet id T in every later snapshot that holds it, and the
\* posting collaborator is not invoked for it again.
PostedAbsorbing ==
    /\ [][\A i \in 1..Len(store) :
             store[i].status = "posted" =>
                 \A j \in 1..Len(store') :
                     store'[j].id = store[i].id =>
                         /\ store'[j].status = "posted"
                         /\ store'[j].posted_tweet_id = store[i].posted_tweet_id]_vars
    /\ [][published' # published =>
             \A i \in 1..Len(store) :
                 store[i].id = published'[Len(published')].job =>
                     store[i].status # "posted"]_vars

\* the scheduled delivery entries of the journal
Scheduled == {e \in Deliveries : e.source = "scheduled"}

\* C31: failed deliveries are not journaled: when the posting collaborator
\* fails for a job, the job gets status failed with last_error set and no
\* delivery entry is appended; every scheduled delivery entry of the journal
\* carries the id, idempotency_key and text of a job for which the posting
\* collaborator returned success, together with the returned tweet id.
FailedDeliveriesNotJournaled ==
    /\ [][\A p \in Procs :
             (/\ pc[p] = "post" /\ pc'[p] \notin {"post", "killed"}
              /\ published' = published) =>
                 /\ journal' = journal
                 /\ sched'[p][due[p][k[p]]].status = "failed"
                 /\ sched'[p][due[p][k[p]]].last_error # NoError]_vars
    /\ [](\A e \in Scheduled :
             /\ \E n \in 1..Len(published) :
                   /\ published[n].job = e.id
                   /\ published[n].text = e.text
                   /\ published[n].tweet_id = e.tweet_id
             /\ \E i \in 1..Len(store) :
                   /\ store[i].id = e.id
                   /\ store[i].idempotency_key = e.idempotency_key
                   /\ store[i].text = e.text)

\* C32: heartbeat after every job: within a run, after each due job is handled,
\* by the idempotent short-circuit, by a successful post or by a failed post,
\* update_lock_heartbeat is called before the next due job is started: the
\* loop moves on to the next job in the step of the heartbeat only.
HeartbeatAfterEveryJob ==
    [][\A p \in Procs :
          (k[p] >= 1 /\ k'[p] = k[p] + 1) => run_once_heartbeat(p)]_vars

\* the number of times run_once has called post_tweet for the job
Invocations(id) == Cardinality({n \in 1..Len(attempted) : attempted[n] = id})

\* a run's snapshot gets attempt_count + 1 in the step that goes to post_tweet
\* and in no other step, the short-circuit included; a lifecycle call keeps
\* the attempt_count of every job it loaded, and what it saves is its snapshot
AttemptCountSteps ==
    /\ [][\A p \in Procs :
             (pc[p] = "loop" /\ pc'[p] = "post") =>
                 /\ Len(sched'[p]) = Len(sched[p])
                 /\ \A i \in 1..Len(sched[p]) :
                       sched'[p][i].attempt_count =
                           sched[p][i].attempt_count + (IF i = due[p][k[p]] THEN 1 ELSE 0)]_vars
    /\ [][\A p \in Procs :
             (/\ pc[p] \in InRun \ {"load"} /\ pc'[p] \in InRun
              /\ ~(pc[p] = "loop" /\ pc'[p] = "post")) =>
                 /\ Len(sched'[p]) = Len(sched[p])
                 /\ \A i \in 1..Len(sched[p]) :
                       sched'[p][i].attempt_count = sched[p][i].attempt_count]_vars
    /\ [][\A p \in Procs :
             (pc[p] = "post" /\ pc'[p] \notin {"post", "killed"}) =>
                 attempted' = Append(attempted, sched[p][due[p][k[p]]].id)]_vars
    /\ [][(lc.state = "idle" /\ lc'.state = "save") =>
             \A i \in 1..Len(store) : \A j \in 1..Len(lc'.snap) :
                 lc'.snap[j].id = store[i].id =>
                     lc'.snap[j].attempt_count = store[i].attempt_count]_vars
    /\ [][(peer.state = "idle" /\ peer'.state = "save") =>
             \A i \in 1..Len(store) : \A j \in 1..Len(peer'.snap) :
                 peer'.snap[j].id = store[i].id =>
                     peer'.snap[j].attempt_count = store[i].attempt_count]_vars
    /\ [][store' # store =>
             \/ \E p \in Procs : pc[p] = "save" /\ store' = sched[p]
             \/ lc.state = "save" /\ store' = lc.snap
             \/ peer.state = "save" /\ store' = peer.snap]_vars

\* C33 (as stated): attempt_count counts delivery attempts: it is increased by
\* exactly one each time the posting collaborator is invoked for the job and
\* left unchanged by the idempotent short-circuit and by lifecycle operations,
\* so in every persisted snapshot attempt_count equals the number of times the
\* posting collaborator has been invoked for that job (looked at when no call
\* is under way).
AttemptCountEqualsInvocations ==
    /\ AttemptCountSteps
    /\ [](Quiescent =>
            \A i \in 1..Len(store) : store[i].attempt_count = Invocations(store[i].id))

\* C33 (amended): attempt_count is increased by exactly one, in the snapshot of
\* the run, each time the posting collaborator is invoked for the job and left
\* unchanged by the idempotent short-circuit and, in the snapshot they load
\* and save, by lifecycle operations; the increase is persisted by the
\* save_schedule that ends the batch only, so in
\* every persisted snapshot attempt_count is at most the number of times the
\* posting collaborator has been invoked for that job.
AttemptCountAtMostInvocations ==
    /\ AttemptCountSteps
    /\ [](\A i \in 1..Len(store) : store[i].attempt_count <= Invocations(store[i].id))

\* C33 witness: a job was posted by a run whose save_schedule failed and then
\* marked posted by the short-circuit of the next run: it is persisted as
\* posted with attempt_count 0 after one invocation.
PostedWithoutCountedAttempt ==
    \E i \in 1..Len(store) :
        /\ store[i].status = "posted"
        /\ store[i].attempt_count = 0
        /\ Invocations(store[i].id) = 1

\* C34: every run_once that returns ok=true has appended exactly one
\* run-summary entry, after the store save and before the lock release, with
\* checked = number of due jobs, posted_count and failed_count the sizes of
\* the returned posted and failed lists, and skipped = true if and only if
\* zero jobs were due; a run that returns runner_active appends none.
RunSummaryOnce ==
    /\ [][\A p \in Procs :
             (res'[p].ok /\ ~res[p].ok) =>
                 LET written == {n \in (jmark[p] + 1)..Len(journal) : journal[n].type = "run"}
                 IN /\ Cardinality(written) = 1
                    /\ \A n \in written :
                          /\ journal[n].ok
                          /\ journal[n].checked = Len(due[p])
                          /\ journal[n].checked = Result(p).checked
                          /\ journal[n].posted_count = Len(Result(p).posted)
                          /\ journal[n].failed_count = Len(Result(p).failed)
                          /\ journal[n].posted_ids = Result(p).posted
                          /\ journal[n].failed_ids = Result(p).failed
                          /\ journal[n].skipped <=> (Len(due[p]) = 0)
                    /\ journal' = journal
                    /\ lock.exists /\ ~lock'.exists]_vars
    /\ [][(Len(journal') = Len(journal) + 1 /\ journal'[Len(journal')].type = "run") =>
             \E p \in Procs :
                 /\ lock.exists /\ lock.pid = p /\ lock'.exists
                 /\ store = sched[p] /\ store' = store
                 /\ ~res[p].ok]_vars
    /\ [][\A p \in Procs :
             (runs' = runs + 1 /\ res'[p].reason = "runner_active") =>
                 journal' = journal]_vars

\* C34 witness: a run has returned ok=true, and the last entry of the journal
\* is its summary of two due jobs, one posted and one failed.
RunSummaryOfTwo ==
    /\ \E p \in Procs : pc[p] = "done" /\ res[p].state = "returned" /\ res[p].ok
    /\ journal # <<>>
    /\ LET e == journal[Len(journal)]
       IN /\ e.type = "run" /\ e.checked = 2 /\ ~e.skipped
          /\ e.posted_count = 1 /\ e.failed_count = 1

\* the set of the elements of a list
Range(list) == {list[n] : n \in 1..Len(list)}

\* no element twice
NoRepeat(list) == \A a, b \in 1..Len(list) : list[a] = list[b] => a = b

\* the ids of the list are in the order in which the jobs hold them
InStoredOrder(list, jobs) ==
    \A a, b \in 1..Len(list) :
        a < b => \E i, j \in 1..Len(jobs) :
                     i < j /\ jobs[i].id = list[a] /\ jobs[j].id = list[b]

StorageErrorsPropagated ==
    /\ [][(~Parses(store) /\ lc.state = "idle") => lc'.state = "idle"]_vars
    /\ [][\A p \in Procs :
             (~Parses(store) /\ pc[p] = "load" /\ pc'[p] # "load") =>
                 pc'[p] = "killed" \/ raised'[p] # "none"]_vars
    /\ [][~Parses(store) => store' = store]_vars

\* C38: bounded retry in the posting client: for max_attempts >= 1, post_tweet
\* issues at least one and at most max_attempts requests; it issues a further
\* request only after a response with status 429, 500, 502, 503 or 504; it
\* returns the tweet id on the first 2xx response that carries one; otherwise
\* it terminates by raising ApiError carrying the status of the last response.
\* Any other status ends the call after that single response. (Looked at for
\* calls in which every request was answered.)
BoundedRetry ==
    (call.max_attempts >= 1 /\ Len(call.responses) = call.sent) =>
        LET n == Len(call.responses)
            last == call.responses[n]
        IN /\ call.sent <= call.max_attempts
           /\ call.state # "request" => call.sent >= 1
           /\ call.state = "request" => call.sent < call.max_attempts
           /\ \A m \in 1..(n - 1) :
                 call.responses[m].status \in {429, 500, 502, 503, 504}
           /\ (n >= 1 /\ last.status \notin {429, 500, 502, 503, 504}) =>
                 call.state # "request"
           /\ call.state = "returned" =>
                 last.status \div 100 = 2 /\ last.body = "id"
           /\ (n >= 1 /\ last.status \div 100 = 2 /\ last.body = "id") =>
                 call.state = "returned"
           /\ (n >= 1 /\ call.state \notin {"request", "returned"}) =>
                 /\ call.state = "raised"
                 /\ call.error = "ApiError"
                 /\ call.status = last.status

\* C39: day-offset with shorthand clock time: a spec "{N}d HH:MM" with N >= 1
\* resolves to the next future occurrence of HH:MM in the target timezone
\* shifted by N-1 further days (N=1 is exactly the next occurrence, N=2 one
\* day beyond it), the value "HH:MM" alone yields plus N-1 days; a value within
\* the five minutes of lead time is refused.
DayOffsetShorthand ==
    (/\ resolved.asked /\ resolved.ts.prefixed
     /\ resolved.ts.days >= 1 /\ resolved.ts.hour <= 23) =>
        LET now_local == resolved.at + resolved.off
            clock == resolved.ts.hour * 60 + resolved.ts.minute
            today == (now_local \div Day) * Day + clock
            occurrence == IF today > now_local THEN today ELSE today + Day
            expected == occurrence + (resolved.ts.days - 1) * Day
        IN IF expected <= now_local + FiveMinutes
           THEN resolved.raised
           ELSE /\ ~resolved.raised
                /\ resolved.was_shorthand
                /\ resolved.target = expected

====
